---- MODULE Spec2Model ----
(***************************************************************************)
(* A model of the Discord launcher: the version helpers and the archive    *)
(* installer of discord_update_lib.py, and the update, stop and run        *)
(* operations of discord_launcher_lib.py with the D-Bus service process    *)
(* that advertises the running client.                                     *)
(***************************************************************************)
EXTENDS Integers, Sequences, FiniteSets, TLC

\* Number of launcher invocations that run side by side.
NumLaunchers == 2

Launchers == 1..NumLaunchers

\* The first PID the operating system hands out; 0 stands for "no PID".
FirstPid == 100

VARIABLES
  pc,        \* pc[l]: where launcher l stands in its operation
  op,        \* op[l]: the operation launcher l was invoked for
  err,       \* err[l]: the exception launcher l's operation raised, or "none"
  blocking,  \* blocking[l]: the `blocking` argument of stop_discord
  owner,     \* the launcher whose service process owns SERVICE_NAME, 0 if none
  svc,       \* svc[l]: state of the service process launcher l started
  svcSig,    \* svcSig[l]: dbus_process.terminate() was called on it
  objPid,    \* objPid[l]: DiscordLauncher._pid of the object it published, 0 if none
  toSvc,     \* toSvc[l]: the pipe from run_discord to its service process
  toMain,    \* toMain[l]: the pipe from the service process to run_discord
  child,     \* child[l]: state of the client process launcher l spawned
  childPid,  \* childPid[l]: discord_process.pid, 0 before the spawn
  sigterm,   \* sigterm[l]: SIGTERM was sent to launcher l's client process
  stopSent,  \* stopSent[l]: launcher l called proxy.Stop
  stopPid,   \* stopPid[l]: the `pid` local of stop_discord
  nextPid,   \* the PID the next spawned process gets
  cfgChannel, \* cfgChannel[l]: config["release_channel"] of launcher l
  strict,    \* strict[l]: the strict_channel argument of launcher l's operation
  forceArg,  \* forceArg[l]: the force argument of a direct install_discord call
  tarArg,    \* tarArg[l]: the archive handed to install_discord, <<>> before
  updateInfo, \* updateInfo[l]: the update_info local of update_discord
  remote,    \* remote[c]: the version in the download location of channel c
  looked,    \* looked[l]: launcher l called get_latest_discord_version
  dir,       \* the installation directory config["discord_path"]
  desktop,   \* whether the launcher's desktop entry file exists
  dirBefore, \* the installation directory as it was when the operations began
  probe,     \* probe[l]: how proxy.Ping ended in launcher l's is_discord_running
  exitCode,  \* exitCode[l]: the exit status of launcher l's client process
  ret,       \* ret[l]: what launcher l's run_discord returned
  notes,     \* notes[l]: the notes added to the exception launcher l raised
  arg,       \* the arguments of a version function called on its own
  res,       \* what the version functions made of arg
  listing    \* listing[l]: the entries of path.iterdir() launcher l has yet to remove

coordVars == <<owner, svc, svcSig, objPid, toSvc, toMain, child, childPid,
               sigterm, stopSent, stopPid, nextPid>>
inputVars == <<op, blocking, cfgChannel, strict, forceArg>>
fsVars == <<dir, desktop, dirBefore>>
updVars == <<tarArg, updateInfo, remote, looked>>
callVars == <<probe, exitCode, ret, notes>>
fnVars == <<arg, res>>
vars == <<pc, err, inputVars, fnVars, listing, callVars, coordVars, fsVars, updVars>>

(***************************************************************************)
(* Strings are sequences of one-character strings, so that parsing and     *)
(* formatting are computed and not assumed.                                *)
(***************************************************************************)
Digits == <<"0", "1", "2", "3", "4", "5", "6", "7", "8", "9">>

IsDigit(c) == \E i \in 1..10 : Digits[i] = c

DigitVal(c) == (CHOOSE i \in 1..10 : Digits[i] = c) - 1

\* Length of the longest run of digits of s that starts at position i: \d+ is greedy.
RECURSIVE DigitRunLen(_, _)
DigitRunLen(s, i) ==
  IF i > Len(s) \/ ~IsDigit(s[i]) THEN 0 ELSE 1 + DigitRunLen(s, i + 1)

\* int() of the digits s[i], ..., s[i + n - 1].
RECURSIVE ToInt(_, _, _)
ToInt(s, i, n) ==
  IF n = 0 THEN 0 ELSE 10 * ToInt(s, i, n - 1) + DigitVal(s[i + n - 1])

\* (\d+)\.(\d+)\.(\d+) matched at position i of s; `end` is the position after it.
MatchVersion(s, i) ==
  LET n1 == DigitRunLen(s, i)
      j  == i + n1 + 1
      n2 == DigitRunLen(s, j)
      k  == j + n2 + 1
      n3 == DigitRunLen(s, k)
  IN  IF /\ n1 > 0 /\ j - 1 <= Len(s) /\ s[j - 1] = "."
         /\ n2 > 0 /\ k - 1 <= Len(s) /\ s[k - 1] = "."
         /\ n3 > 0
      THEN [ok |-> TRUE, v |-> <<ToInt(s, i, n1), ToInt(s, j, n2), ToInt(s, k, n3)>>,
            end |-> k + n3]
      ELSE [ok |-> FALSE, v |-> <<0, 0, 0>>, end |-> i]

\* parse_version: VERSION_REGEX.match anchors at the start of the string only.
parse_version(version) ==
  LET m == MatchVersion(version, 1)
  IN  [ok |-> m.ok, v |-> m.v]

\* compare_versions as it would be if the patch number were looked at before
\* the minor number.
compare_versionsPatchFirst(v1, v2) ==
  IF v1[1] > v2[1] THEN "GREATER_THAN"
  ELSE IF v1[1] < v2[1] THEN "LESS_THAN"
  ELSE IF v1[3] > v2[3] THEN "GREATER_THAN"
  ELSE IF v1[3] < v2[3] THEN "LESS_THAN"
  ELSE IF v1[2] > v2[2] THEN "GREATER_THAN"
  ELSE IF v1[2] < v2[2] THEN "LESS_THAN"
  ELSE "EQUAL_TO"

\* str(number) for a non-negative int.
RECURSIVE IntToStr(_)
IntToStr(n) ==
  IF n < 10 THEN <<Digits[n + 1]>>
  ELSE IntToStr(n \div 10) \o <<Digits[(n % 10) + 1]>>

\* format_version as it would be if the numbers were joined last to first.
format_versionReversed(version) ==
  IntToStr(version[3]) \o <<".">> \o IntToStr(version[2]) \o <<".">>
    \o IntToStr(version[1])

\* format_version, for the three numbers of a version.
format_version(version) ==
  IntToStr(version[1]) \o <<".">> \o IntToStr(version[2]) \o <<".">>
    \o IntToStr(version[3])

\* compare_versions
compare_versions(v1, v2) ==
  IF v1[1] > v2[1] THEN "GREATER_THAN"
  ELSE IF v1[1] < v2[1] THEN "LESS_THAN"
  ELSE IF v1[2] > v2[2] THEN "GREATER_THAN"
  ELSE IF v1[2] < v2[2] THEN "LESS_THAN"
  ELSE IF v1[3] > v2[3] THEN "GREATER_THAN"
  ELSE IF v1[3] < v2[3] THEN "LESS_THAN"
  ELSE "EQUAL_TO"

(***************************************************************************)
(* The installation directory: whether it exists, and its files.  A file   *)
(* is a record of its relative path and its content; build_info.json holds *)
(* the two JSON fields the program reads.                                  *)
(***************************************************************************)
BUILD_INFO_PATH == <<"resources", "build_info.json">>

BuildInfoFile(path, version, channel) ==
  [path |-> path, version |-> version, releaseChannel |-> channel, blob |-> "json"]

PlainFile(path, blob) ==
  [path |-> path, version |-> <<>>, releaseChannel |-> "", blob |-> blob]

NoDir == [exists |-> FALSE, files |-> {}]

\* get_installed_build_info: the file at BUILD_INFO_PATH, if there is one.
HasInstalledBuildInfo(d) ==
  d.exists /\ \E f \in d.files : f.path = BUILD_INFO_PATH

get_installed_build_info(d) ==
  CHOOSE f \in d.files : f.path = BUILD_INFO_PATH

(***************************************************************************)
(* The archive: a sequence of members, each a file record whose path still *)
(* carries the channel's root directory.                                   *)
(***************************************************************************)
\* root_names, without the trailing slash: a path is a sequence of components.
root_names == <<"Discord", "DiscordPTB", "DiscordCanary">>

\* item.path.startswith(root_name)
StartsWithRoot(path, root) == Len(path) >= 2 /\ path[1] = root

\* The inner loop of the scan over root_names[i..3] for one member: `name` is
\* item.name as the earlier roots left it, `count` the number of times the member
\* was appended to root_members, `isInfo` whether it was taken as build_info.
RECURSIVE ScanRoots(_, _)
ScanRoots(acc, i) ==
  IF i > Len(root_names) THEN acc
  ELSE LET root == root_names[i]
           hit  == StartsWithRoot(acc.name, root)
       IN  ScanRoots([name   |-> IF hit THEN Tail(acc.name) ELSE acc.name,
                      count  |-> IF hit THEN acc.count + 1 ELSE acc.count,
                      isInfo |-> acc.isInfo \/ acc.name = <<root>> \o BUILD_INFO_PATH],
                     i + 1)

ScanItem(item) == ScanRoots([name |-> item.path, count |-> 0, isInfo |-> FALSE], 1)

\* root_members: every appended member, under the name the scan left it with.
RECURSIVE RootMembers(_, _)
RootMembers(tar, i) ==
  IF i > Len(tar) THEN <<>>
  ELSE LET r == ScanItem(tar[i])
           m == [tar[i] EXCEPT !.path = r.name]
       IN  (IF r.count = 0 THEN <<>>
            ELSE IF r.count = 1 THEN <<m>>
            ELSE IF r.count = 2 THEN <<m, m>>
            ELSE <<m, m, m>>) \o RootMembers(tar, i + 1)

\* build_info: the last member the scan took as the build info, 0 for None.
InfoIndexes(tar) == {i \in 1..Len(tar) : ScanItem(tar[i]).isInfo}

TarBuildInfoIndex(tar) ==
  IF InfoIndexes(tar) = {} THEN 0
  ELSE CHOOSE i \in InfoIndexes(tar) : \A j \in InfoIndexes(tar) : j <= i

\* InstallCheck as it would be if force did not override an equal version.
InstallCheckForceKeepsSame(d, tar, force, strict_channel) ==
  LET bi == TarBuildInfoIndex(tar)
  IN  IF ~HasInstalledBuildInfo(d)
      THEN IF strict_channel \/ ~force THEN "BuildInfoNotFoundError" ELSE "ok"
      ELSE LET inst == get_installed_build_info(d)
           IN  IF bi = 0 THEN "KeyError"
               ELSE IF tar[bi].releaseChannel # inst.releaseChannel
               THEN IF strict_channel THEN "ReleaseChannelMismatchError" ELSE "ok"
               ELSE IF ~parse_version(tar[bi].version).ok
                       \/ ~parse_version(inst.version).ok
               THEN "ParsingVersionError"
               ELSE LET build_compare ==
                          compare_versions(parse_version(tar[bi].version).v,
                                           parse_version(inst.version).v)
                    IN  IF build_compare = "LESS_THAN" /\ ~force
                        THEN "InstalledVersionNewerError"
                        ELSE IF build_compare = "EQUAL_TO"
                        THEN "InstalledVersionSameError"
                        ELSE "ok"

\* InstallCheck as it would be if differing channels were let through to the
\* version comparison when strict_channel is off.
InstallCheckComparesAcrossChannels(d, tar, force, strict_channel) ==
  LET bi == TarBuildInfoIndex(tar)
  IN  IF ~HasInstalledBuildInfo(d)
      THEN IF strict_channel \/ ~force THEN "BuildInfoNotFoundError" ELSE "ok"
      ELSE LET inst == get_installed_build_info(d)
           IN  IF bi = 0 THEN "KeyError"
               ELSE IF tar[bi].releaseChannel # inst.releaseChannel /\ strict_channel
               THEN IF strict_channel THEN "ReleaseChannelMismatchError" ELSE "ok"
               ELSE IF ~parse_version(tar[bi].version).ok
                       \/ ~parse_version(inst.version).ok
               THEN "ParsingVersionError"
               ELSE LET build_compare ==
                          compare_versions(parse_version(tar[bi].version).v,
                                           parse_version(inst.version).v)
                    IN  IF build_compare = "LESS_THAN" /\ ~force
                        THEN "InstalledVersionNewerError"
                        ELSE IF build_compare = "EQUAL_TO" /\ ~force
                        THEN "InstalledVersionSameError"
                        ELSE "ok"

\* InstallCheck as it would be if the installed version were compared with the
\* archive's instead of the archive's with the installed.
InstallCheckReversedCompare(d, tar, force, strict_channel) ==
  LET bi == TarBuildInfoIndex(tar)
  IN  IF ~HasInstalledBuildInfo(d)
      THEN IF strict_channel \/ ~force THEN "BuildInfoNotFoundError" ELSE "ok"
      ELSE LET inst == get_installed_build_info(d)
           IN  IF bi = 0 THEN "KeyError"
               ELSE IF tar[bi].releaseChannel # inst.releaseChannel
               THEN IF strict_channel THEN "ReleaseChannelMismatchError" ELSE "ok"
               ELSE IF ~parse_version(tar[bi].version).ok
                       \/ ~parse_version(inst.version).ok
               THEN "ParsingVersionError"
               ELSE LET build_compare ==
                          compare_versions(parse_version(inst.version).v,
                                           parse_version(tar[bi].version).v)
                    IN  IF build_compare = "LESS_THAN" /\ ~force
                        THEN "InstalledVersionNewerError"
                        ELSE IF build_compare = "EQUAL_TO" /\ ~force
                        THEN "InstalledVersionSameError"
                        ELSE "ok"

\* InstallCheck as it would be if force alone made a missing installed build_info.json tolerable.
InstallCheckForceAloneTolerates(d, tar, force, strict_channel) ==
  LET bi == TarBuildInfoIndex(tar)
  IN  IF ~HasInstalledBuildInfo(d)
      THEN IF ~force THEN "BuildInfoNotFoundError" ELSE "ok"
      ELSE LET inst == get_installed_build_info(d)
           IN  IF bi = 0 THEN "KeyError"
               ELSE IF tar[bi].releaseChannel # inst.releaseChannel
               THEN IF strict_channel THEN "ReleaseChannelMismatchError" ELSE "ok"
               ELSE IF ~parse_version(tar[bi].version).ok
                       \/ ~parse_version(inst.version).ok
               THEN "ParsingVersionError"
               ELSE LET build_compare ==
                          compare_versions(parse_version(tar[bi].version).v,
                                           parse_version(inst.version).v)
                    IN  IF build_compare = "LESS_THAN" /\ ~force
                        THEN "InstalledVersionNewerError"
                        ELSE IF build_compare = "EQUAL_TO" /\ ~force
                        THEN "InstalledVersionSameError"
                        ELSE "ok"

\* The checks of install_discord between the scan and the removal: the
\* exception they raise, or "ok" when the installation goes ahead.
InstallCheck(d, tar, force, strict_channel) ==
  LET bi == TarBuildInfoIndex(tar)
  IN  IF ~HasInstalledBuildInfo(d)
      THEN IF strict_channel \/ ~force THEN "BuildInfoNotFoundError" ELSE "ok"
      ELSE LET inst == get_installed_build_info(d)
           IN  IF bi = 0 THEN "KeyError"
               ELSE IF tar[bi].releaseChannel # inst.releaseChannel
               THEN IF strict_channel THEN "ReleaseChannelMismatchError" ELSE "ok"
               ELSE IF ~parse_version(tar[bi].version).ok
                       \/ ~parse_version(inst.version).ok
               THEN "ParsingVersionError"
               ELSE LET build_compare ==
                          compare_versions(parse_version(tar[bi].version).v,
                                           parse_version(inst.version).v)
                    IN  IF build_compare = "LESS_THAN" /\ ~force
                        THEN "InstalledVersionNewerError"
                        ELSE IF build_compare = "EQUAL_TO" /\ ~force
                        THEN "InstalledVersionSameError"
                        ELSE "ok"

\* tar_object.extractall(path, members): each member is written under its name;
\* a later member replaces an earlier one of the same name.
RECURSIVE ExtractAll(_, _, _)
ExtractAll(files, members, i) ==
  IF i > Len(members) THEN files
  ELSE ExtractAll({f \in files : f.path # members[i].path} \cup {members[i]},
                  members, i + 1)

(***************************************************************************)
(* The session bus as the launchers see it.                                *)
(***************************************************************************)
\* A call on the proxy of SERVICE_NAME is answered only when the name is owned
\* by a service process that has published its object and runs its event loop;
\* otherwise the call ends in a DBusError or a TimeoutError.
Answering == owner # 0 /\ svc[owner] = "serving"

\* os.kill(pid, 0) succeeds as long as the process is alive or is a zombie that
\* its parent has not waited for.
PidExists(pid) ==
  \E k \in Launchers : childPid[k] = pid /\ child[k] \in {"alive", "exited"}

Raise(l, e) ==
  /\ pc' = [pc EXCEPT ![l] = "failed"]
  /\ err' = [err EXCEPT ![l] = e]

Goto(l, p) ==
  /\ pc' = [pc EXCEPT ![l] = p]
  /\ UNCHANGED err

(***************************************************************************)
(* run_discord                                                             *)
(***************************************************************************)
\* RunProbe as it would be if a running instance did not stop the launch.
RunProbeIgnoringInstance(l) ==
  /\ pc[l] = "run_probe"
  /\ Goto(l, "run_start")
  /\ UNCHANGED <<inputVars, fnVars, listing, callVars, coordVars, fsVars, updVars>>

\* How proxy.Ping(timeout) can end: a serving endpoint replies; otherwise the
\* call ends in a DBusError, or in a TimeoutError when nothing came back in time.
PingOutcomes == IF Answering THEN {"reply"} ELSE {"DBusError", "TimeoutError"}

\* is_discord_running: True unless Ping raised TimeoutError or DBusError.
is_discord_running(outcome) == outcome \notin {"TimeoutError", "DBusError"}

\* RunProbe as it would be if is_discord_running did not catch TimeoutError.
RunProbeTimeoutEscapes(l) ==
  /\ pc[l] = "run_probe"
  /\ \E outcome \in PingOutcomes :
       /\ probe' = [probe EXCEPT ![l] = outcome]
       /\ IF outcome = "TimeoutError" THEN Raise(l, "TimeoutError")
          ELSE IF is_discord_running(outcome) THEN Raise(l, "DiscordRunningError")
          ELSE Goto(l, "run_start")
  /\ UNCHANGED <<inputVars, fnVars, listing, exitCode, ret, notes, coordVars, fsVars, updVars>>

\* is_discord_running(), and `raise DiscordRunningError()` when it is.
RunProbe(l) ==
  /\ pc[l] = "run_probe"
  /\ \E outcome \in PingOutcomes :
       /\ probe' = [probe EXCEPT ![l] = outcome]
       /\ IF is_discord_running(outcome) THEN Raise(l, "DiscordRunningError")
          ELSE Goto(l, "run_start")
  /\ UNCHANGED <<inputVars, fnVars, listing, exitCode, ret, notes, coordVars, fsVars, updVars>>

\* get_installed_build_info, parse_version, Pipe(True) and dbus_process.start().
RunStartService(l) ==
  /\ pc[l] = "run_start"
  /\ IF ~HasInstalledBuildInfo(dir)
     THEN Raise(l, "BuildInfoNotFoundError") /\ UNCHANGED svc
     ELSE IF ~parse_version(get_installed_build_info(dir).version).ok
     THEN Raise(l, "ParsingVersionError") /\ UNCHANGED svc
     ELSE /\ Goto(l, "run_recv1")
          /\ svc' = [svc EXCEPT ![l] = "started"]
  /\ UNCHANGED <<inputVars, fnVars, listing, callVars, owner, svcSig, objPid, toSvc, toMain, child,
                 childPid, sigterm, stopSent, stopPid, nextPid, fsVars, updVars>>

\* The first pipe.recv(): the service's answer to register_service.
RunRecvRegistered(l) ==
  /\ pc[l] = "run_recv1"
  /\ toMain[l] # <<>>
  /\ toMain' = [toMain EXCEPT ![l] = Tail(@)]
  /\ IF Head(toMain[l]) # "None"
     THEN Raise(l, Head(toMain[l]))
     ELSE Goto(l, "run_spawn")
  /\ UNCHANGED <<inputVars, fnVars, listing, callVars, owner, svc, svcSig, objPid, toSvc, child,
                 childPid, sigterm, stopSent, stopPid, nextPid, fsVars, updVars>>

\* subprocess.Popen and pipe.send(discord_process.pid); Popen raises OSError
\* when the binary cannot be executed.
RunSpawn(l) ==
  /\ pc[l] = "run_spawn"
  /\ \E started \in BOOLEAN :
       IF started
       THEN /\ child' = [child EXCEPT ![l] = "alive"]
            /\ childPid' = [childPid EXCEPT ![l] = nextPid]
            /\ nextPid' = nextPid + 1
            /\ toSvc' = [toSvc EXCEPT ![l] = Append(@, nextPid)]
            /\ Goto(l, "run_recv2")
       ELSE /\ Raise(l, "OSError")
            /\ UNCHANGED <<child, childPid, nextPid, toSvc>>
  /\ UNCHANGED <<inputVars, fnVars, listing, callVars, owner, svc, svcSig, objPid, toMain, sigterm,
                 stopSent, stopPid, fsVars, updVars>>

\* RunRecvPublished as it would be if run_discord did not wait for the answer.
RunRecvPublishedNoAck(l) ==
  /\ pc[l] = "run_recv2"
  /\ Goto(l, "run_wait")
  /\ UNCHANGED <<inputVars, fnVars, listing, callVars, coordVars, fsVars, updVars>>

\* RunRecvPublished as it would be without the os.kill on a failed publication.
RunRecvPublishedNoKill(l) ==
  /\ pc[l] = "run_recv2"
  /\ toMain[l] # <<>>
  /\ toMain' = [toMain EXCEPT ![l] = Tail(@)]
  /\ IF Head(toMain[l]) # "None"
     THEN Raise(l, Head(toMain[l]))
     ELSE Goto(l, "run_wait")
  /\ UNCHANGED <<inputVars, fnVars, listing, callVars, owner, svc, svcSig, objPid, toSvc, child,
                 childPid, sigterm, stopSent, stopPid, nextPid, fsVars, updVars>>

\* The second pipe.recv(): the service's answer to publish_object; on an error
\* os.kill(discord_process.pid, SIGTERM) and raise.
RunRecvPublished(l) ==
  /\ pc[l] = "run_recv2"
  /\ toMain[l] # <<>>
  /\ toMain' = [toMain EXCEPT ![l] = Tail(@)]
  /\ IF Head(toMain[l]) # "None"
     THEN /\ sigterm' = [sigterm EXCEPT ![l] = TRUE]
          /\ Raise(l, Head(toMain[l]))
     ELSE /\ Goto(l, "run_wait")
          /\ UNCHANGED sigterm
  /\ UNCHANGED <<inputVars, fnVars, listing, callVars, owner, svc, svcSig, objPid, toSvc, child,
                 childPid, stopSent, stopPid, nextPid, fsVars, updVars>>

\* RunWait as it would be if the service were terminated without waiting for
\* the client.
RunWaitNoWait(l) ==
  /\ pc[l] = "run_wait"
  /\ svcSig' = [svcSig EXCEPT ![l] = TRUE]
  /\ Goto(l, "done")
  /\ UNCHANGED <<inputVars, fnVars, listing, callVars, owner, svc, objPid, toSvc, toMain, child,
                 childPid, sigterm, stopSent, stopPid, nextPid, fsVars, updVars>>

\* RunWait as it would be without dbus_process.terminate().
RunWaitNoTerminate(l) ==
  /\ pc[l] = "run_wait"
  /\ child[l] = "exited"
  /\ child' = [child EXCEPT ![l] = "reaped"]
  /\ Goto(l, "done")
  /\ UNCHANGED <<inputVars, fnVars, listing, callVars, owner, svc, svcSig, objPid, toSvc, toMain,
                 childPid, sigterm, stopSent, stopPid, nextPid, fsVars, updVars>>

\* discord_process.wait() returns once the client has exited, and reaps it;
\* then dbus_process.terminate().
RunWait(l) ==
  /\ pc[l] = "run_wait"
  /\ child[l] = "exited"
  /\ child' = [child EXCEPT ![l] = "reaped"]
  /\ svcSig' = [svcSig EXCEPT ![l] = TRUE]
  /\ ret' = [ret EXCEPT ![l] = "None"]
  /\ Goto(l, "done")
  /\ UNCHANGED <<inputVars, fnVars, listing, probe, exitCode, notes, owner, svc, objPid,
                 toSvc, toMain, childPid, sigterm, stopSent, stopPid, nextPid,
                 fsVars, updVars>>

(***************************************************************************)
(* _run_dbus_service, the service process run_discord starts               *)
(***************************************************************************)
\* SessionMessageBus(), bus.register_service(SERVICE_NAME) and the first
\* pipe.send: the name is granted only when nobody owns it.
SvcRegister(l) ==
  /\ svc[l] = "started"
  /\ IF owner = 0
     THEN /\ owner' = l
          /\ svc' = [svc EXCEPT ![l] = "registered"]
          /\ toMain' = [toMain EXCEPT ![l] = Append(@, "None")]
     ELSE /\ svc' = [svc EXCEPT ![l] = "failing"]
          /\ toMain' = [toMain EXCEPT ![l] = Append(@, "RegisterError")]
          /\ UNCHANGED owner
  /\ UNCHANGED <<pc, err, inputVars, fnVars, listing, callVars, svcSig, objPid, toSvc, child,
                 childPid, sigterm, stopSent, stopPid, nextPid, fsVars, updVars>>

\* SvcPublish as it would be if the object were published with a placeholder
\* before the PID arrives.
SvcPublishPlaceholder(l) ==
  /\ svc[l] = "registered"
  /\ svc' = [svc EXCEPT ![l] = "serving"]
  /\ toMain' = [toMain EXCEPT ![l] = Append(@, "None")]
  /\ UNCHANGED <<pc, err, inputVars, fnVars, listing, callVars, owner, svcSig, objPid, toSvc, child,
                 childPid, sigterm, stopSent, stopPid, nextPid, fsVars, updVars>>

\* bus.publish_object(OBJECT_PATH, DiscordLauncher(config, version, pipe.recv())),
\* the second pipe.send and loop.run(); publish_object may raise.
SvcPublish(l) ==
  /\ svc[l] = "registered"
  /\ toSvc[l] # <<>>
  /\ toSvc' = [toSvc EXCEPT ![l] = Tail(@)]
  /\ \E published \in BOOLEAN :
       IF published
       THEN /\ objPid' = [objPid EXCEPT ![l] = Head(toSvc[l])]
            /\ svc' = [svc EXCEPT ![l] = "serving"]
            /\ toMain' = [toMain EXCEPT ![l] = Append(@, "None")]
       ELSE /\ svc' = [svc EXCEPT ![l] = "failing"]
            /\ toMain' = [toMain EXCEPT ![l] = Append(@, "PublishError")]
            /\ UNCHANGED objPid
  /\ UNCHANGED <<pc, err, inputVars, fnVars, listing, callVars, owner, svcSig, child, childPid,
                 sigterm, stopSent, stopPid, nextPid, fsVars, updVars>>

\* The service process ends: it returned after an error, or SIGTERM reached it.
\* The bus drops its connection, and with it the name and the object.
SvcExit(l) ==
  /\ svc[l] \in {"started", "registered", "serving", "failing"}
  /\ svc[l] = "failing" \/ svcSig[l]
  /\ svc' = [svc EXCEPT ![l] = "exited"]
  /\ owner' = IF owner = l THEN 0 ELSE owner
  /\ objPid' = [objPid EXCEPT ![l] = 0]
  /\ UNCHANGED <<pc, err, inputVars, fnVars, listing, callVars, svcSig, toSvc, toMain, child,
                 childPid, sigterm, stopSent, stopPid, nextPid, fsVars, updVars>>

(***************************************************************************)
(* The client process                                                      *)
(***************************************************************************)
\* What discord_process.wait() would report: the exit code of the client, or
\* the negated number of the signal that ended it.
ExitStatuses(l) == {"0", "1"} \cup (IF sigterm[l] THEN {"-15"} ELSE {})

\* The client exits, by itself or because of a signal; it stays a zombie until
\* run_discord waits for it.
ChildExit(l) ==
  /\ child[l] = "alive"
  /\ child' = [child EXCEPT ![l] = "exited"]
  /\ \E status \in ExitStatuses(l) : exitCode' = [exitCode EXCEPT ![l] = status]
  /\ UNCHANGED <<pc, err, inputVars, fnVars, listing, probe, ret, notes, owner, svc, svcSig,
                 objPid, toSvc, toMain, childPid, sigterm, stopSent, stopPid,
                 nextPid, fsVars, updVars>>

(***************************************************************************)
(* stop_discord                                                            *)
(***************************************************************************)
\* stop_discord returns: to the caller of the stop operation, or into the
\* operation that called it before replacing the installation.
AfterStop(o) ==
  IF o = "stop" THEN "done"
  ELSE IF o = "uninstall" THEN "uninstall"
  ELSE IF o = "install_tar" THEN "inst_check"
  ELSE "download"

StopReturn(l) == Goto(l, AfterStop(op[l]))

\* stop_discord raises DiscordNotRunningError; update_discord, install_discord,
\* install_discord_from_tar and uninstall_discord catch it (except
\* DiscordNotRunningError: pass) and go on.
StopNotRunning(l) ==
  IF op[l] = "stop" THEN Raise(l, "DiscordNotRunningError") ELSE StopReturn(l)

\* pid = int(proxy.PID(timeout)); a DBusError becomes DiscordNotRunningError.
StopGetPid(l) ==
  /\ pc[l] = "stop_pid"
  /\ IF Answering
     THEN /\ stopPid' = [stopPid EXCEPT ![l] = objPid[owner]]
          /\ Goto(l, "stop_send")
     ELSE /\ StopNotRunning(l)
          /\ UNCHANGED stopPid
  /\ UNCHANGED <<inputVars, fnVars, listing, callVars, owner, svc, svcSig, objPid, toSvc, toMain,
                 child, childPid, sigterm, stopSent, nextPid, fsVars, updVars>>

\* StopSend as it would be if stop_discord never waited for the PID to go.
StopSendNeverBlocks(l) ==
  /\ pc[l] = "stop_send"
  /\ stopSent' = [stopSent EXCEPT ![l] = TRUE]
  /\ IF Answering /\ PidExists(objPid[owner])
     THEN /\ sigterm' = [k \in Launchers |->
                           sigterm[k] \/ childPid[k] = objPid[owner]]
          /\ StopReturn(l)
     ELSE /\ StopNotRunning(l)
          /\ UNCHANGED sigterm
  /\ UNCHANGED <<inputVars, fnVars, listing, callVars, owner, svc, svcSig, objPid, toSvc, toMain,
                 child, childPid, stopPid, nextPid, fsVars, updVars>>

\* proxy.Stop(timeout): DiscordLauncher.Stop runs os.kill(self._pid, SIGTERM) in
\* the service process; it does not wait.  A failure of the call, or of os.kill
\* on a PID that is gone, comes back as a DBusError.
StopSend(l) ==
  /\ pc[l] = "stop_send"
  /\ stopSent' = [stopSent EXCEPT ![l] = TRUE]
  /\ IF Answering /\ PidExists(objPid[owner])
     THEN /\ sigterm' = [k \in Launchers |->
                           sigterm[k] \/ childPid[k] = objPid[owner]]
          /\ IF blocking[l] THEN Goto(l, "stop_poll") ELSE StopReturn(l)
     ELSE /\ StopNotRunning(l)
          /\ UNCHANGED sigterm
  /\ UNCHANGED <<inputVars, fnVars, listing, callVars, owner, svc, svcSig, objPid, toSvc, toMain,
                 child, childPid, stopPid, nextPid, fsVars, updVars>>

\* StopPoll as it would be if the loop were left without the os.kill probe.
StopPollNoProbe(l) ==
  /\ pc[l] = "stop_poll"
  /\ StopReturn(l)
  /\ UNCHANGED <<inputVars, fnVars, listing, callVars, coordVars, fsVars, updVars>>

\* while True: os.kill(pid, 0); time.sleep(0.05) -- left when os.kill raises.
StopPoll(l) ==
  /\ pc[l] = "stop_poll"
  /\ ~PidExists(stopPid[l])
  /\ StopReturn(l)
  /\ UNCHANGED <<inputVars, fnVars, listing, callVars, coordVars, fsVars, updVars>>

(***************************************************************************)
(* discord_update_lib.install_discord                                      *)
(***************************************************************************)
\* InstallForce as it would be if update_discord handed the command line's
\* --force-update on to the installation.
InstallForceFromFlag(l) == forceArg[l]

\* The force argument: update_discord leaves it at its default, False, and the
\* launcher's install_discord and install_discord_from_tar pass True.
InstallForce(l) ==
  IF op[l] = "install_lib" THEN forceArg[l] ELSE op[l] \in {"install", "install_tar"}

\* The strict_channel argument: the launcher's install_discord and
\* install_discord_from_tar pass False.
InstallStrict(l) == IF op[l] \in {"install", "install_tar"} THEN FALSE ELSE strict[l]

\* InstallValidate as it would be if the old installation were removed before
\* the checks.
InstallValidateRemovesFirst(l) ==
  /\ pc[l] = "inst_check"
  /\ dir' = NoDir
  /\ LET r == InstallCheck(dir, tarArg[l], InstallForce(l), InstallStrict(l))
     IN  IF r = "ok" THEN Goto(l, "inst_remove") ELSE Raise(l, r)
  /\ UNCHANGED <<inputVars, fnVars, listing, callVars, coordVars, desktop, dirBefore, updVars>>

\* The scan of the archive and every check up to the comment "If we got this
\* far": an exception leaves the function here.
InstallValidate(l) ==
  /\ pc[l] = "inst_check"
  /\ LET r == InstallCheck(dir, tarArg[l], InstallForce(l), InstallStrict(l))
     IN  IF r = "ok" THEN Goto(l, "inst_remove") ELSE Raise(l, r)
  /\ UNCHANGED <<inputVars, fnVars, listing, callVars, coordVars, fsVars, updVars>>

\* InstallRemove as it would be if the old directory were kept and the archive
\* extracted over it.
InstallRemoveKeepsFiles(l) ==
  /\ pc[l] = "inst_remove"
  /\ dir' = [exists |-> TRUE, files |-> dir.files]
  /\ Goto(l, "inst_extract")
  /\ UNCHANGED <<inputVars, fnVars, listing, callVars, coordVars, desktop, dirBefore, updVars>>

\* if path.exists(): remove_directory(path); then path.mkdir(parents=False).
InstallRemove(l) ==
  /\ pc[l] = "inst_remove"
  /\ dir' = [exists |-> TRUE, files |-> {}]
  /\ Goto(l, "inst_extract")
  /\ UNCHANGED <<inputVars, fnVars, listing, callVars, coordVars, desktop, dirBefore, updVars>>

\* tar_object.extractall(path = path, members = root_members, filter = "data").
InstallExtract(l) ==
  /\ pc[l] = "inst_extract"
  /\ dir' = [exists |-> TRUE,
             files |-> ExtractAll(dir.files, RootMembers(tarArg[l], 1), 1)]
  /\ Goto(l, IF op[l] = "install_lib" THEN "done" ELSE "desktop")
  /\ UNCHANGED <<inputVars, fnVars, listing, callVars, coordVars, desktop, dirBefore, updVars>>

(***************************************************************************)
(* remove_directory, entry by entry.  The files of the directory stand for *)
(* its entries: the walk of a subdirectory is the same loop one level down. *)
(***************************************************************************)
\* if path.is_dir(): the entries of path.iterdir() are listed; anything that
\* is not a directory is skipped.
RemoveList(l) ==
  /\ pc[l] = "rm_list"
  /\ IF dir.exists
     THEN /\ listing' = [listing EXCEPT ![l] = {f.path : f \in dir.files}]
          /\ Goto(l, "rm_unlink")
     ELSE /\ Goto(l, "done")
          /\ UNCHANGED listing
  /\ UNCHANGED <<inputVars, fnVars, callVars, coordVars, fsVars, updVars>>

\* item.unlink() for the next listed entry: FileNotFoundError when the entry
\* is gone, since missing_ok is left False.
RemoveUnlink(l) ==
  /\ pc[l] = "rm_unlink"
  /\ \E item \in listing[l] :
       /\ listing' = [listing EXCEPT ![l] = @ \ {item}]
       /\ IF \E f \in dir.files : f.path = item
          THEN /\ dir' = [dir EXCEPT !.files = {f \in @ : f.path # item}]
               /\ Goto(l, "rm_unlink")
          ELSE /\ Raise(l, "FileNotFoundError")
               /\ UNCHANGED dir
  /\ UNCHANGED <<inputVars, fnVars, callVars, coordVars, desktop, dirBefore, updVars>>

\* path.rmdir() after the loop: it raises when the directory is gone or has an
\* entry again.
RemoveRmdir(l) ==
  /\ pc[l] = "rm_unlink"
  /\ listing[l] = {}
  /\ IF ~dir.exists THEN Raise(l, "FileNotFoundError") /\ UNCHANGED dir
     ELSE IF dir.files # {} THEN Raise(l, "OSError") /\ UNCHANGED dir
     ELSE Goto(l, "done") /\ dir' = NoDir
  /\ UNCHANGED <<inputVars, fnVars, listing, callVars, coordVars, desktop, dirBefore,
                 updVars>>

(***************************************************************************)
(* uninstall_discord, after its stop_discord                               *)
(***************************************************************************)
\* The two FileNotFoundError messages of uninstall_discord.
DirMissing == "FileNotFoundError: Discord installation did not already exist"

EntryMissing == "FileNotFoundError: Desktop entry did not already exist"

\* UninstallRemove as it would be if the first missing path ended the
\* uninstallation.
UninstallRemoveStopsAtFirst(l) ==
  /\ pc[l] = "uninstall"
  /\ dir' = NoDir
  /\ desktop' = (IF dir.exists THEN FALSE ELSE desktop)
  /\ notes' = [notes EXCEPT ![l] = {}]
  /\ IF ~dir.exists THEN Raise(l, DirMissing)
     ELSE IF ~desktop THEN Raise(l, EntryMissing)
     ELSE Goto(l, "done")
  /\ UNCHANGED <<inputVars, fnVars, listing, probe, exitCode, ret, coordVars, dirBefore, updVars>>

\* The removal of the installation directory and of the desktop entry: a
\* missing path is remembered in `error`, the first as the exception and the
\* second as a note on it, and raised once both removals were tried.  The
\* installation path is a directory or missing and the desktop entry path a
\* file or missing, so NotADirectoryError and IsADirectoryError do not arise.
UninstallRemove(l) ==
  /\ pc[l] = "uninstall"
  /\ dir' = NoDir
  /\ desktop' = FALSE
  /\ notes' = [notes EXCEPT ![l] =
                 IF ~dir.exists /\ ~desktop THEN {EntryMissing} ELSE {}]
  /\ IF ~dir.exists THEN Raise(l, DirMissing)
     ELSE IF ~desktop THEN Raise(l, EntryMissing)
     ELSE Goto(l, "done")
  /\ UNCHANGED <<inputVars, fnVars, listing, probe, exitCode, ret, coordVars, dirBefore, updVars>>

(***************************************************************************)
(* check_for_updates and update_discord                                    *)
(***************************************************************************)
\* The Location header of the download redirect: the version is a path segment.
get_download_location(channel) == <<"/">> \o remote[channel] \o <<"/">>

\* URL_VERSION_REGEX.search: the first "/" that a version and a "/" follow.
UrlMatches(s) ==
  {i \in 1..Len(s) :
     /\ s[i] = "/"
     /\ MatchVersion(s, i + 1).ok
     /\ MatchVersion(s, i + 1).end <= Len(s)
     /\ s[MatchVersion(s, i + 1).end] = "/"}

get_latest_discord_version(channel) ==
  LET s == get_download_location(channel)
  IN  IF UrlMatches(s) = {} THEN [ok |-> FALSE, v |-> <<0, 0, 0>>]
      ELSE LET i == CHOOSE j \in UrlMatches(s) : \A k \in UrlMatches(s) : j <= k
           IN  [ok |-> TRUE, v |-> MatchVersion(s, i + 1).v]

\* update_info = None
NoUpdateInfo ==
  [set |-> FALSE, ord |-> "", installed |-> <<0, 0, 0>>, latest |-> <<0, 0, 0>>]

\* UpdateOutcome as it would be if an equal version were installed again.
UpdateOutcomeEqualInstalls(ord) ==
  IF ord = "GREATER_THAN" THEN "ValueError" ELSE "ok"

\* UpdateOutcome as it would be if a newer installation counted as up to date.
UpdateOutcomeNewerIsNoUpdate(ord) ==
  IF ord = "LESS_THAN" THEN "ok" ELSE "NoUpdateAvailableError"

\* match update_info[0]: the exception update_discord raises, "ok" to go on.
UpdateOutcome(ord) ==
  IF ord = "EQUAL_TO" THEN "NoUpdateAvailableError"
  ELSE IF ord = "GREATER_THAN" THEN "ValueError"
  ELSE "ok"

\* ReleaseChannelMismatchError(*args): its __init__ takes self alone, so a call
\* with arguments raises TypeError instead of building the exception.
NewReleaseChannelMismatchError(nargs) ==
  IF nargs = 0 THEN "ReleaseChannelMismatchError" ELSE "TypeError"

\* What a check returns or raises: err is "none" when it returns info; looked
\* tells whether it called get_latest_discord_version.
CheckResult(e, info, didLook) == [err |-> e, info |-> info, looked |-> didLook]

\* lib_check_for_updates as it would be if the latest version were compared
\* with the installed one instead of the installed with the latest.
lib_check_for_updatesSwapped(d) ==
  IF ~HasInstalledBuildInfo(d)
  THEN CheckResult("BuildInfoNotFoundError", NoUpdateInfo, FALSE)
  ELSE LET inst == get_installed_build_info(d)
           channel == IF inst.releaseChannel \in {"canary", "ptb"}
                      THEN inst.releaseChannel ELSE "stable"
           current == parse_version(inst.version)
           latest == get_latest_discord_version(channel)
       IN  IF ~current.ok THEN CheckResult("ParsingVersionError", NoUpdateInfo, FALSE)
           ELSE IF ~latest.ok THEN CheckResult("ParsingVersionError", NoUpdateInfo, TRUE)
           ELSE CheckResult("none",
                            [set |-> TRUE, ord |-> compare_versions(latest.v, current.v),
                             installed |-> current.v, latest |-> latest.v],
                            TRUE)

\* discord_update_lib.check_for_updates(path): the installed version is parsed
\* before the latest one is looked up.
lib_check_for_updates(d) ==
  IF ~HasInstalledBuildInfo(d)
  THEN CheckResult("BuildInfoNotFoundError", NoUpdateInfo, FALSE)
  ELSE LET inst == get_installed_build_info(d)
           channel == IF inst.releaseChannel \in {"canary", "ptb"}
                      THEN inst.releaseChannel ELSE "stable"
           current == parse_version(inst.version)
           latest == get_latest_discord_version(channel)
       IN  IF ~current.ok THEN CheckResult("ParsingVersionError", NoUpdateInfo, FALSE)
           ELSE IF ~latest.ok THEN CheckResult("ParsingVersionError", NoUpdateInfo, TRUE)
           ELSE CheckResult("none",
                            [set |-> TRUE, ord |-> compare_versions(current.v, latest.v),
                             installed |-> current.v, latest |-> latest.v],
                            TRUE)

\* check_for_updates as it would be if the latest version were looked up before
\* the channels are compared.
check_for_updatesLookupFirst(d, release_channel) ==
  IF ~HasInstalledBuildInfo(d)
  THEN CheckResult("BuildInfoNotFoundError", NoUpdateInfo, FALSE)
  ELSE IF release_channel # get_installed_build_info(d).releaseChannel
  THEN CheckResult(NewReleaseChannelMismatchError(1), NoUpdateInfo,
                   lib_check_for_updates(d).looked)
  ELSE lib_check_for_updates(d)

\* discord_launcher_lib.check_for_updates(config): the configured channel is
\* compared with the installed one, then the library's check is called.
check_for_updates(d, release_channel) ==
  IF ~HasInstalledBuildInfo(d)
  THEN CheckResult("BuildInfoNotFoundError", NoUpdateInfo, FALSE)
  ELSE IF release_channel # get_installed_build_info(d).releaseChannel
  THEN CheckResult(NewReleaseChannelMismatchError(1), NoUpdateInfo, FALSE)
  ELSE lib_check_for_updates(d)

\* check_for_updates(config) called on its own.
CheckForUpdates(l) ==
  /\ pc[l] = "check"
  /\ LET r == check_for_updates(dir, cfgChannel[l])
     IN  /\ looked' = [looked EXCEPT ![l] = r.looked]
         /\ updateInfo' = [updateInfo EXCEPT ![l] = r.info]
         /\ IF r.err = "none" THEN Goto(l, "done") ELSE Raise(l, r.err)
  /\ UNCHANGED <<inputVars, fnVars, listing, callVars, coordVars, fsVars, tarArg, remote>>

\* UpdateCheck as it would be if the desktop entry were written before the check.
UpdateCheckWritesEntryFirst(l) ==
  /\ pc[l] = "upd_check"
  /\ LET r == check_for_updates(dir, cfgChannel[l])
     IN  /\ looked' = [looked EXCEPT ![l] = r.looked]
         /\ updateInfo' = [updateInfo EXCEPT ![l] = r.info]
         /\ IF r.err = "ReleaseChannelMismatchError"
            THEN IF strict[l] THEN Raise(l, r.err) ELSE Goto(l, "upd_log")
            ELSE IF r.err # "none" THEN Raise(l, r.err)
            ELSE IF UpdateOutcome(r.info.ord) = "ok"
            THEN Goto(l, "upd_log")
            ELSE Raise(l, UpdateOutcome(r.info.ord))
  /\ desktop' = TRUE
  /\ UNCHANGED <<inputVars, fnVars, listing, callVars, coordVars, dir, dirBefore, tarArg,
                 remote>>

\* The try block of update_discord: check_for_updates(config), the match on
\* its result, and the except clause for ReleaseChannelMismatchError, which
\* sets update_info to None and re-raises when strict_channel is set.
UpdateCheck(l) ==
  /\ pc[l] = "upd_check"
  /\ LET r == check_for_updates(dir, cfgChannel[l])
     IN  /\ looked' = [looked EXCEPT ![l] = r.looked]
         /\ updateInfo' = [updateInfo EXCEPT ![l] = r.info]
         /\ IF r.err = "ReleaseChannelMismatchError"
            THEN IF strict[l] THEN Raise(l, r.err) ELSE Goto(l, "upd_log")
            ELSE IF r.err # "none" THEN Raise(l, r.err)
            ELSE IF UpdateOutcome(r.info.ord) = "ok"
            THEN Goto(l, "upd_log")
            ELSE Raise(l, UpdateOutcome(r.info.ord))
  /\ UNCHANGED <<inputVars, fnVars, listing, callVars, coordVars, fsVars, tarArg, remote>>

\* build_info = get_installed_build_info(config) and the two logging calls: the
\* first formats update_info[1] whether or not update_info is None.
UpdateLog(l) ==
  /\ pc[l] = "upd_log"
  /\ IF ~HasInstalledBuildInfo(dir) THEN Raise(l, "BuildInfoNotFoundError")
     ELSE IF ~updateInfo[l].set THEN Raise(l, "TypeError")
     ELSE Goto(l, "stop_pid")
  /\ UNCHANGED <<inputVars, fnVars, listing, callVars, coordVars, fsVars, updVars>>

RootOf(channel) ==
  IF channel = "ptb" THEN "DiscordPTB"
  ELSE IF channel = "canary" THEN "DiscordCanary"
  ELSE "Discord"

\* The archive the download location of a channel serves for a version.
Archive(channel, version) ==
  <<PlainFile(<<RootOf(channel), RootOf(channel)>>, "new"),
    BuildInfoFile(<<RootOf(channel)>> \o BUILD_INFO_PATH, version, channel)>>

\* download_discord(channel = config["release_channel"]), the first half of
\* download_and_install_discord.
UpdateDownload(l) ==
  /\ pc[l] = "download"
  /\ tarArg' = [tarArg EXCEPT ![l] = Archive(cfgChannel[l], remote[cfgChannel[l]])]
  /\ Goto(l, "inst_check")
  /\ UNCHANGED <<inputVars, fnVars, listing, callVars, coordVars, fsVars, updateInfo, remote,
                 looked>>

\* The download server moves a channel to another version: the redirect that
\* check_for_updates read and the archive that download_discord fetches later
\* come from two requests.
Publish(channel, version) ==
  /\ remote[channel] # version
  /\ remote' = [remote EXCEPT ![channel] = version]
  /\ UNCHANGED <<pc, err, inputVars, fnVars, listing, callVars, coordVars, fsVars,
                 tarArg, updateInfo, looked>>

\* create_desktop_entry(config): writes the entry when the configuration
\* enables it, reading the installation's own desktop entry first.  When
\* update_discord returns into update_and_run_discord, run_discord is next.
UpdateDesktop(l) ==
  /\ pc[l] = "desktop"
  /\ \E enabled \in BOOLEAN :
       IF enabled /\ ~HasInstalledBuildInfo(dir)
       THEN Raise(l, "BuildInfoNotFoundError") /\ UNCHANGED desktop
       ELSE /\ Goto(l, IF op[l] = "update_run" THEN "run_probe" ELSE "done")
            /\ desktop' = (desktop \/ enabled)
  /\ UNCHANGED <<inputVars, fnVars, listing, callVars, coordVars, dir, dirBefore, updVars>>

(***************************************************************************)
(* The launchers running and stopping the client side by side              *)
(***************************************************************************)
Entry(o) ==
  IF o = "run" THEN "run_probe"
  ELSE IF o \in {"stop", "uninstall", "install", "install_tar"} THEN "stop_pid"
  ELSE IF o \in {"update", "update_run"} THEN "upd_check"
  ELSE IF o = "check" THEN "check"
  ELSE IF o = "remove" THEN "rm_list"
  ELSE IF o = "install_lib" THEN "inst_check"
  ELSE "done"

\* The release channels the configurations and installations are drawn from.
ModelChannels == {"stable", "ptb"}

\* Version strings an installation's build_info.json may hold.
Ver009 == <<"0", ".", "0", ".", "9">>
Ver010 == <<"0", ".", "0", ".", "1", "0">>
Ver011 == <<"0", ".", "0", ".", "1", "1">>
VerBad == <<"x">>

\* An installation as an earlier install_discord of an archive left it, with a
\* file the client wrote since.
InstalledDir(version, channel) ==
  [exists |-> TRUE,
   files |-> {BuildInfoFile(BUILD_INFO_PATH, version, channel),
              PlainFile(<<RootOf(channel)>>, "old"),
              PlainFile(<<"settings.json">>, "old")}]

\* A directory without build_info.json.
ForeignDir == [exists |-> TRUE, files |-> {PlainFile(<<"notes.txt">>, "old")}]

\* No version function was called on its own.
NoArg == [kind |-> "none", a |-> <<0, 0, 0>>, b |-> <<0, 0, 0>>, c |-> <<0, 0, 0>>,
          s |-> <<>>]

NoRes == [done |-> FALSE, ab |-> "", ba |-> "", bc |-> "", ac |-> "", aa |-> "",
          parsed |-> [ok |-> FALSE, v |-> <<0, 0, 0>>], text |-> <<>>]

\* No operation has probed, spawned, returned or raised anything yet.
CallInit ==
  /\ probe = [l \in Launchers |-> "none"]
  /\ exitCode = [l \in Launchers |-> "none"]
  /\ ret = [l \in Launchers |-> "none"]
  /\ notes = [l \in Launchers |-> {}]
  /\ listing = [l \in Launchers |-> {}]

\* No operation has downloaded or checked anything yet.
IdleInit ==
  /\ CallInit
  /\ arg = NoArg
  /\ res = NoRes
  /\ err = [l \in Launchers |-> "none"]
  /\ updateInfo = [l \in Launchers |-> NoUpdateInfo]
  /\ looked = [l \in Launchers |-> FALSE]
  /\ desktop = FALSE
  /\ dirBefore = dir

CoordInit ==
  /\ owner = 0
  /\ svc = [l \in Launchers |-> "none"]
  /\ svcSig = [l \in Launchers |-> FALSE]
  /\ objPid = [l \in Launchers |-> 0]
  /\ toSvc = [l \in Launchers |-> <<>>]
  /\ toMain = [l \in Launchers |-> <<>>]
  /\ child = [l \in Launchers |-> "none"]
  /\ childPid = [l \in Launchers |-> 0]
  /\ sigterm = [l \in Launchers |-> FALSE]
  /\ stopSent = [l \in Launchers |-> FALSE]
  /\ stopPid = [l \in Launchers |-> 0]
  /\ nextPid = FirstPid

Init ==
  /\ op \in [Launchers -> {"run", "stop"}]
  /\ pc = [l \in Launchers |-> Entry(op[l])]
  /\ blocking \in [Launchers -> BOOLEAN]
  /\ \A l \in Launchers : op[l] # "stop" => blocking[l]
  /\ cfgChannel = [l \in Launchers |-> "stable"]
  /\ strict = [l \in Launchers |-> TRUE]
  /\ forceArg = [l \in Launchers |-> FALSE]
  /\ remote = [c \in ModelChannels |-> Ver010]
  /\ CoordInit
  /\ dir \in {NoDir, InstalledDir(Ver009, "stable"), InstalledDir(VerBad, "stable")}
  /\ tarArg = [l \in Launchers |-> <<>>]
  /\ IdleInit

Next ==
  \E l \in Launchers :
    \/ RunProbe(l)
    \/ RunStartService(l)
    \/ RunRecvRegistered(l)
    \/ RunSpawn(l)
    \/ RunRecvPublished(l)
    \/ RunWait(l)
    \/ SvcRegister(l)
    \/ SvcPublish(l)
    \/ SvcExit(l)
    \/ ChildExit(l)
    \/ StopGetPid(l)
    \/ StopSend(l)
    \/ StopPoll(l)

Spec == Init /\ [][Next]_vars

(***************************************************************************)
(* install_discord called on its own, for every archive, destination,      *)
(* force and strict_channel                                                *)
(***************************************************************************)
\* An archive without a build_info.json member.
ArchiveWithoutInfo(channel) ==
  <<PlainFile(<<RootOf(channel), RootOf(channel)>>, "new")>>

ModelVersions == {Ver009, Ver010}

ModelArchives ==
  {Archive(c, v) : c \in ModelChannels, v \in ModelVersions \cup {VerBad}}
    \cup {ArchiveWithoutInfo(c) : c \in ModelChannels}

ModelDirs ==
  {NoDir, ForeignDir}
    \cup {InstalledDir(v, c) : v \in ModelVersions \cup {VerBad}, c \in ModelChannels}

InitInstall ==
  /\ op = [l \in Launchers |-> IF l = 1 THEN "install_lib" ELSE "none"]
  /\ pc = [l \in Launchers |-> Entry(op[l])]
  /\ blocking = [l \in Launchers |-> TRUE]
  /\ cfgChannel = [l \in Launchers |-> "stable"]
  /\ strict \in [Launchers -> BOOLEAN]
  /\ forceArg \in [Launchers -> BOOLEAN]
  /\ \A l \in Launchers : op[l] = "none" => (strict[l] /\ ~forceArg[l])
  /\ remote = [c \in ModelChannels |-> Ver010]
  /\ CoordInit
  /\ dir \in ModelDirs
  /\ IdleInit
  /\ \E a \in ModelArchives :
       tarArg = [l \in Launchers |-> IF l = 1 THEN a ELSE <<>>]

NextInstall ==
  \E l \in Launchers :
    \/ InstallValidate(l)
    \/ InstallRemove(l)
    \/ InstallExtract(l)

SpecInstall == InitInstall /\ [][NextInstall]_vars

(***************************************************************************)
(* install_discord on archives with members outside the roots or with a    *)
(* root name below the root, and on an empty destination                   *)
(***************************************************************************)
\* An archive with a member that no root name begins.
ArchiveWithStray(channel, version) ==
  Archive(channel, version) \o <<PlainFile(<<"README">>, "new")>>

\* An archive of the stable channel with a directory named DiscordPTB in it.
NestedArchive ==
  <<PlainFile(<<"Discord", "DiscordPTB", "app">>, "new"),
    BuildInfoFile(<<"Discord">> \o BUILD_INFO_PATH, Ver010, "stable")>>

EmptyDir == [exists |-> TRUE, files |-> {}]

InitExtract ==
  /\ op = [l \in Launchers |-> IF l = 1 THEN "install_lib" ELSE "none"]
  /\ pc = [l \in Launchers |-> Entry(op[l])]
  /\ blocking = [l \in Launchers |-> TRUE]
  /\ cfgChannel = [l \in Launchers |-> "stable"]
  /\ strict \in [Launchers -> BOOLEAN]
  /\ forceArg \in [Launchers -> BOOLEAN]
  /\ \A l \in Launchers : op[l] = "none" => (strict[l] /\ ~forceArg[l])
  /\ remote = [c \in ModelChannels |-> Ver010]
  /\ CoordInit
  /\ dir \in ModelDirs \cup {EmptyDir}
  /\ IdleInit
  /\ \E a \in ModelArchives \cup {NestedArchive}
                \cup {ArchiveWithStray(c, Ver010) : c \in ModelChannels} :
       tarArg = [l \in Launchers |-> IF l = 1 THEN a ELSE <<>>]

SpecExtract == InitExtract /\ [][NextInstall]_vars

(***************************************************************************)
(* update_discord beside a launcher that runs the client                   *)
(***************************************************************************)
InitUpdate ==
  /\ op = [l \in Launchers |->
             IF l = 1 THEN "update" ELSE IF l = 2 THEN "run" ELSE "none"]
  /\ pc = [l \in Launchers |-> Entry(op[l])]
  /\ blocking = [l \in Launchers |-> TRUE]
  /\ cfgChannel \in [Launchers -> ModelChannels]
  /\ strict \in [Launchers -> BOOLEAN]
  /\ \A l \in Launchers : op[l] # "update" => (strict[l] /\ cfgChannel[l] = "stable")
  /\ forceArg = [l \in Launchers |-> FALSE]
  /\ remote \in [ModelChannels -> ModelVersions]
  /\ CoordInit
  /\ dir \in ModelDirs
  /\ tarArg = [l \in Launchers |-> <<>>]
  /\ IdleInit

NextUpdate ==
  \/ Next
  \/ \E l \in Launchers :
       \/ UpdateCheck(l)
       \/ UpdateLog(l)
       \/ UpdateDownload(l)
       \/ InstallValidate(l)
       \/ InstallRemove(l)
       \/ InstallExtract(l)
       \/ UpdateDesktop(l)

SpecUpdate == InitUpdate /\ [][NextUpdate]_vars

(***************************************************************************)
(* update_discord while the download server changes what it serves         *)
(***************************************************************************)
ServedVersions == {Ver009, Ver010, Ver011}

\* forceArg is the command line's --force-update.
InitUpdateRace ==
  /\ op = [l \in Launchers |->
             IF l = 1 THEN "update" ELSE IF l = 2 THEN "run" ELSE "none"]
  /\ pc = [l \in Launchers |-> Entry(op[l])]
  /\ blocking = [l \in Launchers |-> TRUE]
  /\ cfgChannel \in [Launchers -> ModelChannels]
  /\ strict \in [Launchers -> BOOLEAN]
  /\ forceArg \in [Launchers -> BOOLEAN]
  /\ \A l \in Launchers :
       op[l] # "update" => (strict[l] /\ cfgChannel[l] = "stable" /\ ~forceArg[l])
  /\ remote \in [ModelChannels -> ServedVersions]
  /\ CoordInit
  /\ dir \in {InstalledDir(Ver010, c) : c \in ModelChannels}
  /\ tarArg = [l \in Launchers |-> <<>>]
  /\ IdleInit

NextUpdateRace ==
  \/ NextUpdate
  \/ \E c \in ModelChannels, v \in ServedVersions : Publish(c, v)

SpecUpdateRace == InitUpdateRace /\ [][NextUpdateRace]_vars

(***************************************************************************)
(* check_for_updates called on its own                                     *)
(***************************************************************************)
InitCheck ==
  /\ op = [l \in Launchers |-> IF l = 1 THEN "check" ELSE "none"]
  /\ pc = [l \in Launchers |-> Entry(op[l])]
  /\ blocking = [l \in Launchers |-> TRUE]
  /\ cfgChannel \in [Launchers -> ModelChannels]
  /\ \A l \in Launchers : op[l] = "none" => cfgChannel[l] = "stable"
  /\ strict = [l \in Launchers |-> TRUE]
  /\ forceArg = [l \in Launchers |-> FALSE]
  /\ remote \in [ModelChannels -> ModelVersions \cup {VerBad}]
  /\ CoordInit
  /\ dir \in ModelDirs
  /\ tarArg = [l \in Launchers |-> <<>>]
  /\ IdleInit

NextCheck == \E l \in Launchers : CheckForUpdates(l)

SpecCheck == InitCheck /\ [][NextCheck]_vars

(***************************************************************************)
(* update_and_run_discord beside a launcher that runs the client           *)
(***************************************************************************)
InitUpdateRun ==
  /\ op = [l \in Launchers |->
             IF l = 1 THEN "update_run" ELSE IF l = 2 THEN "run" ELSE "none"]
  /\ pc = [l \in Launchers |-> Entry(op[l])]
  /\ blocking = [l \in Launchers |-> TRUE]
  /\ cfgChannel \in [Launchers -> ModelChannels]
  /\ strict \in [Launchers -> BOOLEAN]
  /\ \A l \in Launchers :
       op[l] # "update_run" => (strict[l] /\ cfgChannel[l] = "stable")
  /\ forceArg = [l \in Launchers |-> FALSE]
  /\ remote \in [ModelChannels -> ModelVersions]
  /\ CoordInit
  /\ dir \in ModelDirs
  /\ tarArg = [l \in Launchers |-> <<>>]
  /\ IdleInit

SpecUpdateRun == InitUpdateRun /\ [][NextUpdate]_vars

(***************************************************************************)
(* uninstall_discord beside a launcher that runs the client                *)
(***************************************************************************)
InitUninstall ==
  /\ op = [l \in Launchers |->
             IF l = 1 THEN "uninstall" ELSE IF l = 2 THEN "run" ELSE "none"]
  /\ pc = [l \in Launchers |-> Entry(op[l])]
  /\ blocking = [l \in Launchers |-> TRUE]
  /\ cfgChannel = [l \in Launchers |-> "stable"]
  /\ strict = [l \in Launchers |-> TRUE]
  /\ forceArg = [l \in Launchers |-> FALSE]
  /\ remote = [c \in ModelChannels |-> Ver010]
  /\ CoordInit
  /\ CallInit
  /\ arg = NoArg
  /\ res = NoRes
  /\ err = [l \in Launchers |-> "none"]
  /\ updateInfo = [l \in Launchers |-> NoUpdateInfo]
  /\ looked = [l \in Launchers |-> FALSE]
  /\ tarArg = [l \in Launchers |-> <<>>]
  /\ dir \in {NoDir, ForeignDir, InstalledDir(Ver009, "stable")}
  /\ dirBefore = dir
  /\ desktop \in BOOLEAN

NextUninstall == Next \/ \E l \in Launchers : UninstallRemove(l)

SpecUninstall == InitUninstall /\ [][NextUninstall]_vars

(***************************************************************************)
(* The version functions called on their own                               *)
(***************************************************************************)
\* No launcher runs an operation.
QuietInit ==
  /\ op = [l \in Launchers |-> "none"]
  /\ pc = [l \in Launchers |-> Entry(op[l])]
  /\ blocking = [l \in Launchers |-> TRUE]
  /\ cfgChannel = [l \in Launchers |-> "stable"]
  /\ strict = [l \in Launchers |-> TRUE]
  /\ forceArg = [l \in Launchers |-> FALSE]
  /\ remote = [c \in ModelChannels |-> Ver010]
  /\ CoordInit
  /\ CallInit
  /\ err = [l \in Launchers |-> "none"]
  /\ updateInfo = [l \in Launchers |-> NoUpdateInfo]
  /\ looked = [l \in Launchers |-> FALSE]
  /\ tarArg = [l \in Launchers |-> <<>>]
  /\ dir = NoDir
  /\ dirBefore = dir
  /\ desktop = FALSE
  /\ res = NoRes

\* The largest number in the versions that are compared.
MaxPart == 1

CompareTriples == {<<x, y, z>> : x \in 0..MaxPart, y \in 0..MaxPart, z \in 0..MaxPart}

InitCompare ==
  /\ QuietInit
  /\ arg \in [kind : {"compare"}, a : CompareTriples, b : CompareTriples,
               c : CompareTriples, s : {<<>>}]

\* compare_versions applied to the pairs of three versions.
CompareVersions ==
  /\ arg.kind = "compare"
  /\ ~res.done
  /\ res' = [res EXCEPT !.done = TRUE,
                        !.ab = compare_versions(arg.a, arg.b),
                        !.ba = compare_versions(arg.b, arg.a),
                        !.bc = compare_versions(arg.b, arg.c),
                        !.ac = compare_versions(arg.a, arg.c),
                        !.aa = compare_versions(arg.a, arg.a)]
  /\ UNCHANGED <<pc, err, inputVars, arg, listing, callVars, coordVars, fsVars, updVars>>

SpecCompare == InitCompare /\ [][CompareVersions]_vars

\* The digits and the largest number of digits in a component of the version
\* strings that are parsed, and the largest number that is formatted.
ModelDigits == {"0", "1"}

MaxDigits == 2

MaxNumber == 11

Numerals == UNION {[1..n -> ModelDigits] : n \in 1..MaxDigits}

FormatTriples ==
  {<<x, y, z>> : x \in 0..MaxNumber, y \in {0, MaxNumber}, z \in {1, MaxNumber - 1}}

InitRoundTrip ==
  /\ QuietInit
  /\ \/ \E x \in Numerals, y \in Numerals, z \in Numerals :
          arg = [NoArg EXCEPT !.kind = "string",
                              !.s = x \o <<".">> \o y \o <<".">> \o z]
     \/ \E v \in FormatTriples : arg = [NoArg EXCEPT !.kind = "triple", !.a = v]

\* format_version(parse_version(s))
FormatParsed ==
  /\ arg.kind = "string"
  /\ ~res.done
  /\ res' = [res EXCEPT !.done = TRUE,
                        !.parsed = parse_version(arg.s),
                        !.text = format_version(parse_version(arg.s).v)]
  /\ UNCHANGED <<pc, err, inputVars, arg, listing, callVars, coordVars, fsVars, updVars>>

\* parse_version(format_version(v))
ParseFormatted ==
  /\ arg.kind = "triple"
  /\ ~res.done
  /\ res' = [res EXCEPT !.done = TRUE,
                        !.text = format_version(arg.a),
                        !.parsed = parse_version(format_version(arg.a))]
  /\ UNCHANGED <<pc, err, inputVars, arg, listing, callVars, coordVars, fsVars, updVars>>

NextRoundTrip == FormatParsed \/ ParseFormatted

SpecRoundTrip == InitRoundTrip /\ [][NextRoundTrip]_vars

(***************************************************************************)
(* The operations that remove or replace the installation, each beside a   *)
(* launcher that runs the client                                           *)
(***************************************************************************)
ReplacingOps == {"update", "install", "install_tar", "uninstall"}

InitReplace ==
  /\ op \in [Launchers -> ReplacingOps \cup {"run", "none"}]
  /\ \A l \in Launchers :
       IF l = 1 THEN op[l] \in ReplacingOps
       ELSE IF l = 2 THEN op[l] = "run" ELSE op[l] = "none"
  /\ pc = [l \in Launchers |-> Entry(op[l])]
  /\ blocking = [l \in Launchers |-> TRUE]
  /\ cfgChannel = [l \in Launchers |-> "stable"]
  /\ strict = [l \in Launchers |-> TRUE]
  /\ forceArg = [l \in Launchers |-> FALSE]
  /\ remote \in [ModelChannels -> ModelVersions]
  /\ CoordInit
  /\ dir \in {NoDir, InstalledDir(Ver009, "stable"), InstalledDir(Ver010, "stable")}
  /\ tarArg = [l \in Launchers |->
                 IF op[l] = "install_tar" THEN Archive("stable", Ver009) ELSE <<>>]
  /\ IdleInit

NextReplace == NextUpdate \/ \E l \in Launchers : UninstallRemove(l)

SpecReplace == InitReplace /\ [][NextReplace]_vars

(***************************************************************************)
(* remove_directory called on one path by every launcher at once           *)
(***************************************************************************)
InitRemove ==
  /\ op = [l \in Launchers |-> "remove"]
  /\ pc = [l \in Launchers |-> Entry(op[l])]
  /\ blocking = [l \in Launchers |-> TRUE]
  /\ cfgChannel = [l \in Launchers |-> "stable"]
  /\ strict = [l \in Launchers |-> TRUE]
  /\ forceArg = [l \in Launchers |-> FALSE]
  /\ remote = [c \in ModelChannels |-> Ver010]
  /\ CoordInit
  /\ dir \in {NoDir, ForeignDir} \cup {InstalledDir(Ver009, c) : c \in ModelChannels}
  /\ tarArg = [l \in Launchers |-> <<>>]
  /\ IdleInit

NextRemove ==
  \E l \in Launchers :
    \/ RemoveList(l)
    \/ RemoveUnlink(l)
    \/ RemoveRmdir(l)

SpecRemove == InitRemove /\ [][NextRemove]_vars

\* The processes take their steps: a launcher that can receive or wait does so,
\* and a service process that was told to end, or can publish, does so.
FairSpec ==
  /\ Spec
  /\ \A l \in Launchers :
       /\ WF_vars(RunRecvPublished(l))
       /\ WF_vars(RunWait(l))
       /\ WF_vars(SvcPublish(l))
       /\ WF_vars(SvcExit(l))

\* Every step of a launcher and of a service process is taken once it can be;
\* the client alone decides when, and whether, it exits.
FairStopSpec ==
  /\ Spec
  /\ \A l \in Launchers :
       /\ WF_vars(RunProbe(l))
       /\ WF_vars(RunStartService(l))
       /\ WF_vars(RunRecvRegistered(l))
       /\ WF_vars(RunSpawn(l))
       /\ WF_vars(RunRecvPublished(l))
       /\ WF_vars(RunWait(l))
       /\ WF_vars(SvcRegister(l))
       /\ WF_vars(SvcPublish(l))
       /\ WF_vars(SvcExit(l))
       /\ WF_vars(StopGetPid(l))
       /\ WF_vars(StopSend(l))
       /\ WF_vars(StopPoll(l))

(***************************************************************************)
(* Properties of run_discord and the service process                       *)
(***************************************************************************)
\* The service processes that hold, or believe they hold, SERVICE_NAME.
Registered == {l \in Launchers : svc[l] \in {"registered", "serving"}}

\* The launcher-spawned client processes that are alive.
AliveChildren == {l \in Launchers : child[l] = "alive"}

\* C2: when the probe of run_discord finds a running instance, that step raises
\* DiscordRunningError and changes nothing on the bus or among the processes, and
\* a launcher that failed so has spawned no client, started no service and sent
\* no stop request.
C2_AlreadyRunningFailsFast ==
  /\ [][\A l \in Launchers :
          (pc[l] = "run_probe" /\ Answering /\ pc'[l] # pc[l])
            => /\ pc'[l] = "failed"
               /\ err'[l] = "DiscordRunningError"
               /\ UNCHANGED coordVars]_vars
  /\ [](\A l \in Launchers :
          (pc[l] = "failed" /\ err[l] = "DiscordRunningError")
            => /\ child[l] = "none" /\ childPid[l] = 0
               /\ svc[l] = "none"
               /\ ~stopSent[l] /\ ~sigterm[l])

C2_Witness ==
  \E l \in Launchers :
    /\ pc[l] = "failed" /\ err[l] = "DiscordRunningError"
    /\ \E k \in Launchers : k # l /\ svc[k] = "serving" /\ child[k] = "alive"

\* C3: at most one launcher holds the registration of SERVICE_NAME and at most
\* one launcher-spawned client process is alive, in every reachable state.
C3_AtMostOneInstance ==
  /\ Cardinality(Registered) <= 1
  /\ Cardinality(AliveChildren) <= 1

\* C4 as claimed: the name is registered by a launcher's service exactly when
\* the client that launcher spawned is alive.
C4_EndpointIffChildAlive ==
  \A l \in Launchers : (owner = l) <=> (child[l] = "alive")

\* C4 as amended: the endpoint's lifetime encloses the child's instead of
\* equalling it.  The object advertising the PID is published only once the
\* client has been spawned, and once run_discord has received the publish
\* acknowledgement the name stays registered and the object published for as
\* long as the client is alive; the name is released only after the launcher
\* has waited for the client.
C4_EndpointEnclosesChild ==
  \A l \in Launchers :
    /\ svc[l] = "serving" => child[l] # "none"
    /\ (pc[l] \in {"run_wait", "done"} /\ child[l] = "alive")
         => (owner = l /\ svc[l] = "serving")
    /\ (pc[l] = "done" /\ op[l] = "run") => child[l] = "reaped"

C4_Witness ==
  \E l \in Launchers :
    pc[l] = "run_wait" /\ child[l] = "alive" /\ owner = l /\ svc[l] = "serving"

\* C5: whenever a PID query on the endpoint can be answered, the answer is the
\* PID of a client process that the answering service's launcher has spawned.
C5_AdvertisedPidIsSpawnedPid ==
  /\ \A l \in Launchers :
       svc[l] = "serving"
         => /\ objPid[l] # 0
            /\ objPid[l] = childPid[l]
            /\ child[l] # "none"
  /\ \A l \in Launchers :
       stopPid[l] # 0 => \E k \in Launchers : child[k] # "none" /\ childPid[k] = stopPid[l]

C5_Witness ==
  \E l \in Launchers :
    /\ stopPid[l] # 0
    /\ Answering /\ objPid[owner] = stopPid[l]

\* C6: when run_discord waits for the client, the endpoint is published, its
\* PID() is discord_process.pid, and the service answers under the name.
C6_PublishedBeforeWait ==
  \A l \in Launchers :
    pc[l] = "run_wait"
      => /\ svc[l] = "serving"
         /\ owner = l
         /\ childPid[l] # 0
         /\ objPid[l] = childPid[l]

C6_Witness ==
  \E l \in Launchers : pc[l] = "run_wait" /\ objPid[l] = childPid[l] /\ child[l] = "alive"

\* C7: a launcher whose service failed to register or to publish ends with that
\* error and never goes on to wait; it has spawned no client, or has sent
\* SIGTERM to the client it spawned.
C7_RegistrationFailureIsFatal ==
  \A l \in Launchers :
    /\ (pc[l] = "failed" /\ err[l] \in {"RegisterError", "PublishError"})
         => (child[l] = "none" \/ sigterm[l])
    /\ (pc[l] = "failed" /\ err[l] = "RegisterError") => child[l] = "none"
    /\ svc[l] = "failing" => pc[l] \in {"run_recv1", "run_spawn", "run_recv2", "failed"}
    /\ (pc[l] \in {"run_wait", "done"} /\ op[l] = "run")
         => svc[l] \in {"serving", "exited"}

C7_Witness ==
  \E l \in Launchers :
    /\ pc[l] = "failed" /\ err[l] = "PublishError"
    /\ child[l] = "alive" /\ sigterm[l]

\* C8: the service is told to end only after run_discord has waited for the
\* client, and once the client has exited the service ends and the name is
\* free of it, so that a probe is no longer answered by it.
C8_TeardownAfterExit ==
  /\ [](\A l \in Launchers : svcSig[l] => child[l] = "reaped")
  /\ \A l \in Launchers :
       (child[l] = "exited") ~> (svc[l] = "exited" /\ owner # l)

C8_Witness ==
  \E l \in Launchers :
    /\ pc[l] = "done" /\ op[l] = "run"
    /\ child[l] = "reaped" /\ svc[l] = "exited" /\ ~Answering

(***************************************************************************)
(* Properties of install_discord and update_discord                        *)
(***************************************************************************)
\* Lexicographic order on version triples, written out.
VersionLess(a, b) ==
  \/ a[1] < b[1]
  \/ a[1] = b[1] /\ a[2] < b[2]
  \/ a[1] = b[1] /\ a[2] = b[2] /\ a[3] < b[3]

\* The members of an archive that are <root>/resources/build_info.json.
ArchiveInfos(tar) ==
  {i \in 1..Len(tar) :
     \E r \in 1..Len(root_names) : tar[i].path = <<root_names[r]>> \o BUILD_INFO_PATH}

\* The validation of launcher l's install_discord call has to fail: the archive
\* has no build info and force is off, or both build infos are there and the
\* channels differ under strict_channel, or the channels agree and the archive's
\* version is not above the installed one and force is off.
MustFailValidation(l) ==
  LET tar == tarArg[l]
  IN  \/ ArchiveInfos(tar) = {} /\ ~forceArg[l]
      \/ /\ ArchiveInfos(tar) # {}
         /\ HasInstalledBuildInfo(dirBefore)
         /\ LET a == tar[CHOOSE i \in ArchiveInfos(tar) : TRUE]
                inst == get_installed_build_info(dirBefore)
            IN  \/ a.releaseChannel # inst.releaseChannel /\ strict[l]
                \/ /\ a.releaseChannel = inst.releaseChannel
                   /\ ~forceArg[l]
                   /\ parse_version(a.version).ok
                   /\ parse_version(inst.version).ok
                   /\ ~VersionLess(parse_version(inst.version).v,
                                   parse_version(a.version).v)

\* C1: install_discord leaves the destination as it found it whenever it raises
\* before the extraction is over, and whenever one of the validation checks has
\* to fail it raises and never reaches the removal.
C1_FailedValidationKeepsDestination ==
  \A l \in Launchers :
    op[l] = "install_lib" =>
      /\ pc[l] = "failed" => dir = dirBefore
      /\ MustFailValidation(l)
           => /\ dir = dirBefore
              /\ pc[l] \in {"inst_check", "failed"}

C1_Witness ==
  \E l \in Launchers :
    /\ op[l] = "install_lib" /\ pc[l] = "failed"
    /\ err[l] = "InstalledVersionNewerError"
    /\ MustFailValidation(l)
    /\ dirBefore.exists /\ dir = dirBefore

\* The installed and the latest published version as update_discord of
\* launcher l meets them: the configured channel is the installed one and both
\* versions parse.
Comparable(l) ==
  /\ HasInstalledBuildInfo(dirBefore)
  /\ cfgChannel[l] = get_installed_build_info(dirBefore).releaseChannel
  /\ parse_version(get_installed_build_info(dirBefore).version).ok
  /\ parse_version(remote[cfgChannel[l]]).ok

InstalledVersion == parse_version(get_installed_build_info(dirBefore).version).v

LatestVersion(l) == parse_version(remote[cfgChannel[l]]).v

\* C9: when the installed version equals the latest one, update_discord ends at
\* its check with NoUpdateAvailableError; and whenever it raised that error it
\* has downloaded nothing, called no install and left the directory as it was.
C9_NoUpdateAvailable ==
  \A l \in Launchers :
    op[l] = "update" =>
      /\ (Comparable(l) /\ InstalledVersion = LatestVersion(l) /\ pc[l] # "upd_check")
           => (pc[l] = "failed" /\ err[l] = "NoUpdateAvailableError")
      /\ err[l] = "NoUpdateAvailableError"
           => /\ pc[l] = "failed"
              /\ Comparable(l) /\ InstalledVersion = LatestVersion(l)
              /\ tarArg[l] = <<>>
              /\ dir = dirBefore

C9_Witness ==
  \E l \in Launchers :
    /\ op[l] = "update" /\ err[l] = "NoUpdateAvailableError"
    /\ InstalledVersion = LatestVersion(l)
    /\ dir = dirBefore /\ dir.exists

\* C10: when the installed version is above the latest one, update_discord ends
\* at its check with an error that is not NoUpdateAvailableError (a ValueError),
\* has downloaded nothing and has left the directory as it was.
C10_InstalledNewerIsHardError ==
  \A l \in Launchers :
    (op[l] = "update" /\ Comparable(l) /\ VersionLess(LatestVersion(l), InstalledVersion))
      => /\ pc[l] \in {"upd_check", "failed"}
         /\ pc[l] = "failed"
              => /\ err[l] = "ValueError"
                 /\ err[l] # "NoUpdateAvailableError"
         /\ tarArg[l] = <<>>
         /\ dir = dirBefore

C10_Witness ==
  \E l \in Launchers :
    /\ op[l] = "update" /\ pc[l] = "failed" /\ err[l] = "ValueError"
    /\ Comparable(l) /\ VersionLess(LatestVersion(l), InstalledVersion)
    /\ dir = dirBefore

(***************************************************************************)
(* update_and_run_discord, update_discord and check_for_updates            *)
(***************************************************************************)
\* The configuration of launcher l names another channel than the installed
\* build_info.json.
ChannelsDiffer(l) ==
  /\ HasInstalledBuildInfo(dirBefore)
  /\ cfgChannel[l] # get_installed_build_info(dirBefore).releaseChannel

\* C11: in update_and_run_discord a NoUpdateAvailableError of the update step
\* does not end the sequence, which goes on to the probe and the client; any
\* other exception of the update step ends it with no client spawned.
C11_NoUpdateIsNotFatal ==
  \A l \in Launchers :
    (op[l] = "update_run" /\ pc[l] = "failed") =>
      /\ err[l] # "NoUpdateAvailableError"
      /\ (err[l] \notin {"DiscordRunningError", "RegisterError", "PublishError"}
            => child[l] = "none")

\* C12: when the configured and the installed channel differ, update_discord
\* fails only under strict_channel, and then with ReleaseChannelMismatchError;
\* without strict_channel it goes on to stop, download and install.
C12_MismatchPropagatedOrSwallowed ==
  \A l \in Launchers :
    (op[l] = "update" /\ ChannelsDiffer(l) /\ pc[l] = "failed") =>
      (strict[l] /\ err[l] = "ReleaseChannelMismatchError")

\* C13: check_for_updates, when the configured and the installed channel
\* differ, ends in ReleaseChannelMismatchError.
C13_MismatchRaisesChannelError ==
  \A l \in Launchers :
    (op[l] = "check" /\ ChannelsDiffer(l) /\ pc[l] # "check") =>
      (pc[l] = "failed" /\ err[l] = "ReleaseChannelMismatchError")

\* C14: when the configured and the installed channel differ,
\* check_for_updates never calls get_latest_discord_version.
C14_NoLookupOnMismatch ==
  \A l \in Launchers :
    (op[l] = "check" /\ ChannelsDiffer(l)) => ~looked[l]

\* A check that ended on differing channels, the installed version being one
\* the lookup would have been reached with.
C14_Witness ==
  \E l \in Launchers :
    /\ op[l] = "check" /\ ChannelsDiffer(l) /\ pc[l] = "failed"
    /\ parse_version(get_installed_build_info(dirBefore).version).ok
    /\ ~looked[l]

(***************************************************************************)
(* The checks of install_discord, case by case                             *)
(***************************************************************************)
\* The build info of the archive handed to launcher l's install_discord call.
ArchiveInfo(l) == tarArg[l][CHOOSE i \in ArchiveInfos(tarArg[l]) : TRUE]

\* The build info the destination held when the call began.
InstalledInfo == get_installed_build_info(dirBefore)

\* The archive has a build info and so has the destination.
BothInfos(l) == ArchiveInfos(tarArg[l]) # {} /\ HasInstalledBuildInfo(dirBefore)

SameChannel(l) == ArchiveInfo(l).releaseChannel = InstalledInfo.releaseChannel

\* Both versions are of the form the comparison reads.
VersionsParse(l) ==
  parse_version(ArchiveInfo(l).version).ok /\ parse_version(InstalledInfo.version).ok

ArchiveVersion(l) == parse_version(ArchiveInfo(l).version).v

\* The destination as a complete installation of launcher l's archive leaves
\* it: nothing but the archive's members, each without its root directory.
ExpectedInstall(l) ==
  [exists |-> TRUE,
   files |-> {[tarArg[l][i] EXCEPT !.path = Tail(tarArg[l][i].path)] :
                i \in 1..Len(tarArg[l])}]

\* The call of launcher l raised nothing so far and, once over, has replaced
\* the destination by the archive's members.
Proceeds(l) ==
  /\ pc[l] # "failed"
  /\ pc[l] = "done" => dir = ExpectedInstall(l)

\* The call of launcher l is stopped by the checks with exception e.
FailsWith(l, e) ==
  /\ pc[l] \in {"inst_check", "failed"}
  /\ pc[l] = "failed" => err[l] = e
  /\ dir = dirBefore

\* C15 as stated: with force, install_discord succeeds whenever the archive's
\* version is lower than or equal to the installed one or the channels differ,
\* whatever strict_channel is.
C15_ForceAlwaysSucceeds ==
  \A l \in Launchers :
    (/\ op[l] = "install_lib" /\ forceArg[l] /\ BothInfos(l)
     /\ \/ ~SameChannel(l)
        \/ VersionsParse(l) /\ ~VersionLess(InstalledVersion, ArchiveVersion(l)))
      => Proceeds(l)

\* C15: with force, install_discord succeeds when the channels agree and the
\* archive's version is lower than or equal to the installed one, whatever
\* strict_channel is, and when the channels differ and strict_channel is off;
\* when the channels differ under strict_channel it raises
\* ReleaseChannelMismatchError even with force.
C15_ForceOverridesVersionConflict ==
  \A l \in Launchers :
    (op[l] = "install_lib" /\ forceArg[l] /\ BothInfos(l)) =>
      /\ (/\ SameChannel(l) /\ VersionsParse(l)
          /\ ~VersionLess(InstalledVersion, ArchiveVersion(l))) => Proceeds(l)
      /\ (~SameChannel(l) /\ ~strict[l]) => Proceeds(l)
      /\ (~SameChannel(l) /\ strict[l]) => FailsWith(l, "ReleaseChannelMismatchError")

\* A forced installation of the installed version itself, under strict_channel,
\* is over and has replaced the destination.
C15_Witness ==
  \E l \in Launchers :
    /\ op[l] = "install_lib" /\ forceArg[l] /\ strict[l] /\ BothInfos(l)
    /\ SameChannel(l) /\ VersionsParse(l)
    /\ ArchiveVersion(l) = InstalledVersion
    /\ pc[l] = "done" /\ dir = ExpectedInstall(l) /\ dir # dirBefore

\* C16: an archive without build info makes install_discord fail with
\* BuildInfoNotFoundInTarError unless force is on and strict_channel off,
\* whether or not the destination holds an installation.
C16_MissingArchiveInfoIsFatal ==
  \A l \in Launchers :
    (/\ op[l] = "install_lib" /\ ArchiveInfos(tarArg[l]) = {}
     /\ ~(forceArg[l] /\ ~strict[l]) /\ pc[l] # "inst_check")
      => (pc[l] = "failed" /\ err[l] = "BuildInfoNotFoundInTarError")

\* C17: an archive without build info is installed when force is on and
\* strict_channel off, with or without an installation at the destination.
C17_DegradedModeInstalls ==
  \A l \in Launchers :
    (/\ op[l] = "install_lib" /\ ArchiveInfos(tarArg[l]) = {}
     /\ forceArg[l] /\ ~strict[l])
      => Proceeds(l)

\* C18: when both build infos are there and their channels differ,
\* install_discord raises ReleaseChannelMismatchError under strict_channel and
\* otherwise installs, whatever force is and whatever the two versions are,
\* readable or not.
C18_ChannelMismatchRule ==
  \A l \in Launchers :
    (op[l] = "install_lib" /\ BothInfos(l) /\ ~SameChannel(l)) =>
      IF strict[l] THEN FailsWith(l, "ReleaseChannelMismatchError")
      ELSE Proceeds(l)

\* An archive of another channel and of a lower version was installed without
\* force.
C18_Witness ==
  \E l \in Launchers :
    /\ op[l] = "install_lib" /\ BothInfos(l) /\ ~SameChannel(l)
    /\ ~strict[l] /\ ~forceArg[l]
    /\ VersionsParse(l) /\ VersionLess(ArchiveVersion(l), InstalledVersion)
    /\ pc[l] = "done" /\ dir = ExpectedInstall(l)

\* C19: when the channels agree, a lower archive version raises
\* InstalledVersionNewerError and an equal one InstalledVersionSameError unless
\* force is on, and a greater one, or any with force, is installed.
C19_VersionRule ==
  \A l \in Launchers :
    (op[l] = "install_lib" /\ BothInfos(l) /\ SameChannel(l) /\ VersionsParse(l)) =>
      IF forceArg[l] \/ VersionLess(InstalledVersion, ArchiveVersion(l))
      THEN Proceeds(l)
      ELSE IF VersionLess(ArchiveVersion(l), InstalledVersion)
      THEN FailsWith(l, "InstalledVersionNewerError")
      ELSE FailsWith(l, "InstalledVersionSameError")

\* An archive of the installed channel and of a lower version was refused.
C19_Witness ==
  \E l \in Launchers :
    /\ op[l] = "install_lib" /\ BothInfos(l) /\ SameChannel(l) /\ VersionsParse(l)
    /\ ~forceArg[l] /\ VersionLess(ArchiveVersion(l), InstalledVersion)
    /\ pc[l] = "failed" /\ err[l] = "InstalledVersionNewerError"

\* C20: a destination without build_info.json makes install_discord raise
\* BuildInfoNotFoundError and leave the destination alone when strict_channel
\* is on or force off, and is installed over exactly when force is on and
\* strict_channel off.
C20_MissingInstalledInfoRule ==
  \A l \in Launchers :
    (op[l] = "install_lib" /\ ~HasInstalledBuildInfo(dirBefore)) =>
      IF forceArg[l] /\ ~strict[l] THEN Proceeds(l)
      ELSE FailsWith(l, "BuildInfoNotFoundError")

\* A forced installation under strict_channel was refused for want of the
\* installed build_info.json.
C20_Witness ==
  \E l \in Launchers :
    /\ op[l] = "install_lib" /\ ~HasInstalledBuildInfo(dirBefore)
    /\ forceArg[l] /\ strict[l]
    /\ pc[l] = "failed" /\ err[l] = "BuildInfoNotFoundError" /\ dir = dirBefore

(***************************************************************************)
(* What install_discord leaves at the destination                          *)
(***************************************************************************)
\* The members of launcher l's archive that a root name begins.
RootedMembers(l) ==
  {tarArg[l][i] : i \in {j \in 1..Len(tarArg[l]) :
     \E r \in 1..Len(root_names) : StartsWithRoot(tarArg[l][j].path, root_names[r])}}

AllUnderOneRoot(l) ==
  \E r \in 1..Len(root_names) :
    \A i \in 1..Len(tarArg[l]) : StartsWithRoot(tarArg[l][i].path, root_names[r])

\* C22: an archive whose members all lie under one root is installed into an
\* empty destination under force and without strict_channel, and every
\* extracted path is the member's path without the root.
C22_RootPrefixStripped ==
  \A l \in Launchers :
    (/\ op[l] = "install_lib" /\ forceArg[l] /\ ~strict[l]
     /\ dirBefore.files = {} /\ AllUnderOneRoot(l))
      => /\ pc[l] # "failed"
         /\ pc[l] = "done" =>
              dir.files = {[tarArg[l][i] EXCEPT !.path = Tail(tarArg[l][i].path)] :
                             i \in 1..Len(tarArg[l])}

(***************************************************************************)
(* The result of check_for_updates                                         *)
(***************************************************************************)
\* The numbers the version strings of the installations and download
\* locations stand for.
TripleOf(version) == IF version = Ver009 THEN <<0, 0, 9>> ELSE <<0, 0, 10>>

\* C23: when the configured and the installed channel agree, check_for_updates
\* returns the order of the installed version relative to the latest version
\* of the installed channel, the installed version and the latest version.
C23_CheckReturnsTriple ==
  \A l \in Launchers :
    (/\ op[l] = "check" /\ pc[l] # "check"
     /\ HasInstalledBuildInfo(dirBefore) /\ ~ChannelsDiffer(l)
     /\ get_installed_build_info(dirBefore).version \in ModelVersions
     /\ remote[get_installed_build_info(dirBefore).releaseChannel] \in ModelVersions)
      => LET installed == TripleOf(get_installed_build_info(dirBefore).version)
             latest == TripleOf(remote[get_installed_build_info(dirBefore).releaseChannel])
         IN  /\ pc[l] = "done"
             /\ updateInfo[l].set
             /\ updateInfo[l].installed = installed
             /\ updateInfo[l].latest = latest
             /\ updateInfo[l].ord =
                  (IF VersionLess(installed, latest) THEN "LESS_THAN"
                   ELSE IF VersionLess(latest, installed) THEN "GREATER_THAN"
                   ELSE "EQUAL_TO")

\* A check of an installed 0.0.9 against a latest 0.0.10 returned
\* (LESS_THAN, (0, 0, 9), (0, 0, 10)).
C23_Witness ==
  \E l \in Launchers :
    /\ op[l] = "check" /\ pc[l] = "done" /\ ~ChannelsDiffer(l)
    /\ updateInfo[l] = [set |-> TRUE, ord |-> "LESS_THAN",
                        installed |-> <<0, 0, 9>>, latest |-> <<0, 0, 10>>]

(***************************************************************************)
(* uninstall_discord                                                       *)
(***************************************************************************)
\* C24: uninstall_discord tries both removals before it raises: with the
\* installation directory missing and the desktop entry there, the entry is
\* removed and the directory's FileNotFoundError raised; with both missing the
\* directory's error is raised with the entry's as a note; with both there,
\* both are removed and nothing is raised.
C24_UninstallAccumulates ==
  [][\A l \in Launchers :
       (pc[l] = "uninstall" /\ pc'[l] # "uninstall") =>
         /\ ~dir'.exists /\ ~desktop'
         /\ (~dir.exists /\ desktop) =>
              (pc'[l] = "failed" /\ err'[l] = DirMissing /\ notes'[l] = {})
         /\ (~dir.exists /\ ~desktop) =>
              (pc'[l] = "failed" /\ err'[l] = DirMissing
               /\ notes'[l] = {EntryMissing})
         /\ (dir.exists /\ desktop) =>
              (pc'[l] = "done" /\ err'[l] = "none" /\ notes'[l] = {})]_vars

\* An uninstallation that found no installation directory ended in the
\* directory's error alone, so the desktop entry was there, and it is gone.
C24_Witness ==
  \E l \in Launchers :
    /\ op[l] = "uninstall" /\ pc[l] = "failed"
    /\ ~dirBefore.exists /\ err[l] = DirMissing /\ notes[l] = {}
    /\ ~desktop

(***************************************************************************)
(* stop_discord, is_discord_running and the return of run_discord          *)
(***************************************************************************)
\* C25: a blocking stop_discord that has sent the stop request returns in the
\* end, whether or not the client ever exits.
C25_BlockingStopReturns ==
  \A l \in Launchers : (pc[l] = "stop_poll") ~> (pc[l] # "stop_poll")

\* C26: is_discord_running always comes back, and with no endpoint registered
\* it reports not running, so that run_discord goes on, whether the call
\* ended in an error of the bus or in a timeout.
C26_ProbeWithoutEndpoint ==
  /\ [][\A l \in Launchers :
          (pc[l] = "run_probe" /\ pc'[l] # "run_probe" /\ owner = 0) =>
            /\ probe'[l] \in {"DBusError", "TimeoutError"}
            /\ pc'[l] = "run_start" /\ err'[l] = "none"]_vars
  /\ \A l \in Launchers : (pc[l] = "run_probe") ~> (pc[l] # "run_probe")

\* A probe that timed out with no endpoint registered let run_discord go on.
C26_Witness ==
  \E l \in Launchers :
    owner = 0 /\ probe[l] = "TimeoutError" /\ pc[l] = "run_start"

\* C27: stop_discord raises DiscordNotRunningError only when no endpoint is
\* registered and serving; a failure of a call on a serving endpoint is
\* another error.
C27_NotRunningMeansNoEndpoint ==
  [][\A l \in Launchers :
       (/\ op[l] = "stop" /\ pc[l] # "failed" /\ pc'[l] = "failed"
        /\ err'[l] = "DiscordNotRunningError") => ~Answering]_vars

\* C28: run_discord returns the exit status of the client it waited for.
C28_ExitStatusPropagated ==
  \A l \in Launchers :
    (op[l] \in {"run", "update_run"} /\ pc[l] = "done") => ret[l] = exitCode[l]

(***************************************************************************)
(* compare_versions, parse_version and format_version                      *)
(***************************************************************************)
\* The lexicographic order of two triples.
Lexicographic(a, b) ==
  IF VersionLess(a, b) THEN "LESS_THAN"
  ELSE IF VersionLess(b, a) THEN "GREATER_THAN"
  ELSE "EQUAL_TO"

\* C29: compare_versions is the lexicographic comparison of (major, minor,
\* patch): a version equals itself, a is below b exactly when b is above a,
\* only equal triples compare equal, and LESS_THAN is transitive.
C29_CompareIsLexicographicOrder ==
  (arg.kind = "compare" /\ res.done) =>
    /\ res.aa = "EQUAL_TO"
    /\ res.ab = "LESS_THAN" <=> res.ba = "GREATER_THAN"
    /\ res.ab = "EQUAL_TO" => arg.a = arg.b
    /\ (res.ab = "LESS_THAN" /\ res.bc = "LESS_THAN") => res.ac = "LESS_THAN"
    /\ res.ab = Lexicographic(arg.a, arg.b)

\* Three versions of one major number, each below the next, the first pair by
\* the minor number although its patch numbers say the opposite.
C29_Witness ==
  /\ arg.kind = "compare" /\ res.done
  /\ arg.a[1] = arg.b[1] /\ arg.a[2] < arg.b[2] /\ arg.a[3] > arg.b[3]
  /\ res.ab = "LESS_THAN" /\ res.bc = "LESS_THAN" /\ res.ac = "LESS_THAN"

\* No component of the version string s is written with a leading zero.
Canonical(s) ==
  \A i \in 1..Len(s) :
    (s[i] = "0" /\ (i = 1 \/ s[i - 1] = ".")) => (i = Len(s) \/ s[i + 1] = ".")

\* C30 as stated: every string of three dot-separated numbers is what
\* format_version makes of its parse_version, and every triple is what
\* parse_version makes of its format_version.
C30_RoundTrip ==
  res.done =>
    /\ arg.kind = "string" => (res.parsed.ok /\ res.text = arg.s)
    /\ arg.kind = "triple" => (res.parsed.ok /\ res.parsed.v = arg.a)

\* C30: a string of three dot-separated numbers written without leading zeros
\* is what format_version makes of its parse_version, and every triple is what
\* parse_version makes of its format_version.
C30_CanonicalRoundTrip ==
  res.done =>
    /\ (arg.kind = "string" /\ Canonical(arg.s)) =>
         (res.parsed.ok /\ res.text = arg.s)
    /\ arg.kind = "string" => res.parsed.ok
    /\ arg.kind = "triple" => (res.parsed.ok /\ res.parsed.v = arg.a)

\* The string 10.0.11 came back from its parse.
C30_Witness ==
  /\ res.done /\ arg.kind = "string"
  /\ arg.s = <<"1", "0", ".", "0", ".", "1", "1">>
  /\ res.parsed.v = <<10, 0, 11>>
  /\ res.text = arg.s

(***************************************************************************)
(* remove_directory beside another removal                                 *)
(***************************************************************************)
\* C31: remove_directory does not fail when an entry it listed, or the
\* directory, has been removed by another removal in the meantime.
C31_RemovalToleratesVanishedEntries ==
  \A l \in Launchers : op[l] = "remove" => pc[l] # "failed"

C33_StopBeforeRemoval ==
  /\ [][\A l \in Launchers :
          (/\ op[l] \in ReplacingOps
           /\ pc[l] \in {"inst_remove", "uninstall"} /\ pc'[l] # pc[l]
           /\ stopPid[l] # 0)
          => (stopSent[l] /\ ~PidExists(stopPid[l]))]_vars
  /\ [](\A l \in Launchers :
          op[l] \in ReplacingOps => err[l] # "DiscordNotRunningError")

\* An installation was replaced or removed after the running instance had
\* been stopped and its PID had gone.
C33_Witness ==
  \E l \in Launchers :
    /\ op[l] \in {"install", "install_tar", "uninstall"}
    /\ stopPid[l] # 0 /\ stopSent[l] /\ ~PidExists(stopPid[l])
    /\ pc[l] = "done" /\ dir # dirBefore

\* C34: with one launcher in run_discord and another in update_discord or
\* install_discord, the installation directory is never removed or rewritten
\* while a client that a launcher spawned is alive.
C34_NoReplacementBesideLiveClient ==
  [][\A l \in Launchers :
       (op[l] \in {"update", "install"} /\ pc'[l] # pc[l] /\ dir' # dir)
       => \A k \in Launchers : child[k] # "alive"]_vars

(***************************************************************************)
(* The service process after run_discord                                   *)
(***************************************************************************)
\* C35: once run_discord has finished, by returning or by raising, the service
\* process it started comes to an end and no longer owns the bus name.
C35_FinishedRunLeavesNoService ==
  \A l \in Launchers :
    (op[l] = "run" /\ pc[l] \in {"done", "failed"})
      ~> (svc[l] \in {"none", "exited"} /\ owner # l)

(***************************************************************************)
(* What the Stop request and the blocking stop_discord do                  *)
(***************************************************************************)
\* C36: the Stop request only signals the advertised PID and ends no process
\* itself; a blocking stop_discord returns normally only from its probe loop,
\* having found the PID it read gone, and a stop_discord with blocking=False
\* returns from the Stop request itself, without a probe.
C36_StopSignalsThenProbes ==
  [][\A l \in Launchers :
       op[l] = "stop" =>
         /\ (pc[l] = "stop_send" /\ pc'[l] # "stop_send")
              => /\ child' = child /\ childPid' = childPid
                 /\ stopSent'[l]
                 /\ pc'[l] = "stop_poll" => blocking[l]
                 /\ \A k \in Launchers :
                      (sigterm'[k] /\ ~sigterm[k]) => childPid[k] = objPid[owner]
         /\ (pc'[l] = "done" /\ pc[l] # "done")
              => IF blocking[l]
                 THEN pc[l] = "stop_poll" /\ stopSent[l] /\ ~PidExists(stopPid[l])
                 ELSE pc[l] = "stop_send"]_vars

\* A stop_discord with blocking=False has returned while the client it
\* signalled is still alive.
C36_Witness ==
  /\ \E l \in Launchers :
       /\ op[l] = "stop" /\ ~blocking[l] /\ pc[l] = "done"
       /\ stopSent[l] /\ PidExists(stopPid[l])
       /\ \E k \in Launchers : childPid[k] = stopPid[l] /\ sigterm[k] /\ child[k] = "alive"

(***************************************************************************)
(* update_and_run_discord and update_discord towards a running instance    *)
(***************************************************************************)
\* C37: update_and_run_discord never sends a stop request to a running
\* instance, whatever the update step comes to.
C37_UpdateAndRunNeverStops ==
  \A l \in Launchers :
    op[l] = "update_run" =>
      ~(stopSent[l] /\ \E k \in Launchers : childPid[k] = stopPid[l] /\ sigterm[k])

\* C38: when update_discord raises from its check -- NoUpdateAvailableError,
\* the ValueError of a newer installation, or the error of a channel mismatch
\* -- it has sent no stop request, downloaded nothing and left the
\* installation directory and the desktop entry as they were.
C38_FailedCheckTouchesNothing ==
  \A l \in Launchers :
    (/\ op[l] = "update" /\ pc[l] = "failed"
     /\ err[l] \in {"NoUpdateAvailableError", "ValueError", "ReleaseChannelMismatchError",
                    "TypeError"})
    => /\ ~stopSent[l] /\ stopPid[l] = 0
       /\ tarArg[l] = <<>>
       /\ dir = dirBefore
       /\ ~desktop

\* update_discord found nothing to install and raised while another launcher's
\* client was running and answering on the bus.
C38_Witness ==
  \E l \in Launchers :
    /\ op[l] = "update" /\ pc[l] = "failed" /\ err[l] = "NoUpdateAvailableError"
    /\ dir.exists /\ dir = dirBefore
    /\ Answering /\ child[owner] = "alive" /\ ~sigterm[owner]

(***************************************************************************)
(* The scan of the archive                                                 *)
(***************************************************************************)
\* C39: once install_discord has scanned its archive, every member whose path
\* a root name begins was appended to root_members exactly once and has lost
\* exactly one root prefix, and the member taken as build info is one whose
\* path in the archive is <root>/resources/build_info.json.
C39_ScanTakesEachMemberOnce ==
  \A l \in Launchers :
    (op[l] = "install_lib" /\ pc[l] # "inst_check") =>
      /\ \A m \in RootedMembers(l) :
           ScanItem(m).count = 1 /\ ScanItem(m).name = Tail(m.path)
      /\ TarBuildInfoIndex(tarArg[l]) # 0
           => TarBuildInfoIndex(tarArg[l]) \in ArchiveInfos(tarArg[l])

====
